---- MODULE Spec2Model ----
(***************************************************************************)
(* Keyword-scored retrieval over medical case reports.                     *)
(*                                                                         *)
(* The module models MultiCaseMedicalRetriever (multi_case_rag.py): the    *)
(* additive relevance score of a document for a query, the stable          *)
(* descending sort, the top_k selection and the zero-score fallback.       *)
(*                                                                         *)
(* Wherever the code looks inside a string (lower, split, in) the string   *)
(* is the sequence of its characters, so that lowercasing, splitting and   *)
(* substring containment are computed, not assumed.                        *)
(***************************************************************************)
EXTENDS Integers, Sequences, FiniteSets, TLC

\* ---------------------------------------------------------------- bounds
\* Largest number of Documents the caller's corpus holds.
MaxDocs == 2
\* Largest top_k a retriever is constructed with.
MaxTopK == 3

\* ---------------------------------------------------------------- inputs
\* Retriever instances.
Retrievers == {"r1", "r2"}

\* top_k values a retriever may be constructed with.
TopKs == 0..MaxTopK

\* Query strings.
Queries == {"", "74-year-old", "Old Mammary", "chest pain"}

\* Paragraph texts the loader may deliver.
Contents ==
  {"A 74-year-old woman with breast cancer.",
   "chest pain",
   "unrelated text",
   "old mammary"}

\* Query strings for single iterations of the scoring loop.
ScoreQueries ==
  {"surgery",
   "oxygen",
   "cancer drug",
   "old old",
   "is old",
   "Tumor",
   "woman",
   "old breast cancer bone",
   "ARDS",
   "xy",
   "mammary",
   "Blood Pressure test",
   "PaO2 chf",
   "osa pbss"}

\* Document texts for single iterations of the scoring loop.
ScoreContents ==
  {"surgery",
   "ablation",
   "oxygen",
   "pulse",
   "bold",
   "this is bold",
   "carcinoma",
   "year-old breast cancer bone",
   "ARDS",
   "unrelated text",
   "propofol tumor",
   "hemoglobin",
   "pao2 and CHF",
   "PBSS for OSA",
   "ards pneumonitis",
   "he is older"}

\* Queries put to the patient searcher.
MimicQueries ==
  {"",
   "chest pain",
   "Pain",
   "xy",
   "10001 medicine",
   "stent no"}

\* The contents, keywords and metadata values of the patient files.
MimicTexts ==
  {"10001",
   "F",
   "MEDICINE",
   "Chest pain",
   "Sex: F\nService: MEDICINE\nChief Complaint: Chest pain\n\nChest pain on exertion, pain at rest.",
   "chest pain",
   "10002",
   "M",
   "SURGERY",
   "Sex: M\nService: SURGERY\n\nNo pain. Stent placed.",
   "stent",
   "surgery",
   "10003",
   "unrelated text",
   "10004",
   "aspirin",
   "Service: MEDICINE\nAllergies: aspirin\n\nno painkillers",
   "k"}

\* Questions put to the extractor and the answer generator: one per trigger
\* list, one that triggers nothing, and one in mixed case that triggers two.
ExtractQueries ==
  {"age",
   "sex",
   "diagnosis",
   "medication",
   "procedure",
   "complication",
   "outcome",
   "chest pain",
   "Gender and Age"}

\* Document texts given to the extractor: the quoted case report, texts for
\* each extraction category, and one that no pattern matches.
ExtractContents ==
  {"A 74-year-old woman with breast cancer.",
   "A man in his 70s.",
   "She is 65 years old Female.",
   "Propofol 100 MG iv, fentanyl drip",
   "unrelated text",
   "history of hypertension, developed sepsis ",
   "underwent surgery: bypass. She died",
   "Age: 74"}

\* Document texts given to the keyword searcher.
KeywordContents ==
  {"Age 74, old age.",
   "a page on the ward",
   "unrelated text"}

\* Keywords a caller of search_keywords asks for: the same word in two
\* letter cases and a word of another text.
Keywords ==
  {"age",
   "Age",
   "ward"}

\* Every keyword of the keyword_categories table.
TableKeywords ==
  {"age",
   "old",
   "year",
   "male",
   "female",
   "man",
   "woman",
   "sex",
   "gender",
   "diagnosis",
   "condition",
   "disease",
   "cancer",
   "carcinoma",
   "failure",
   "apnea",
   "amyloidosis",
   "diabetes",
   "hypertension",
   "fibrillation",
   "obstructive",
   "sleep",
   "heart",
   "coronary",
   "atrial",
   "cardiac",
   "medication",
   "drug",
   "medicine",
   "propofol",
   "remifentanil",
   "rivaroxaban",
   "naproxen",
   "vasopressor",
   "drip",
   "infusion",
   "injection",
   "mg",
   "mcg",
   "ml",
   "procedure",
   "surgery",
   "operation",
   "intervention",
   "performed",
   "underwent",
   "placed",
   "PCI",
   "ablation",
   "intubation",
   "catheter",
   "endotracheal",
   "complication",
   "problem",
   "issue",
   "hypotension",
   "pressure",
   "drop",
   "tachycardic",
   "bradycardic",
   "arrhythmia",
   "outcome",
   "result",
   "discharge",
   "died",
   "survived",
   "recovered",
   "improved",
   "transferred",
   "ICU",
   "SICU",
   "ward",
   "blood pressure",
   "heart rate",
   "HR",
   "BP",
   "ABP",
   "bpm",
   "mm Hg",
   "oxygen",
   "saturation",
   "temperature",
   "pulse",
   "respiratory rate",
   "lab",
   "laboratory",
   "blood",
   "test",
   "value",
   "level",
   "count",
   "hemoglobin",
   "hematocrit",
   "glucose",
   "creatinine",
   "BUN"}

\* The characters of each string: a str is a sequence of one-character
\* strings wherever the code looks inside it.
chars ==
  [s \in Queries \cup Contents \cup ScoreQueries \cup ScoreContents \cup ExtractQueries \cup ExtractContents \cup KeywordContents \cup Keywords \cup TableKeywords \cup MimicQueries \cup MimicTexts |->
     CASE s = "" ->
            <<>>
       [] s = "74-year-old" ->
            <<"7","4","-","y","e","a","r","-","o","l","d">>
       [] s = "Old Mammary" ->
            <<"O","l","d"," ","M","a","m","m","a","r","y">>
       [] s = "chest pain" ->
            <<"c","h","e","s","t"," ","p","a","i","n">>
       [] s = "A 74-year-old woman with breast cancer." ->
            <<"A"," ","7","4","-","y","e","a","r","-","o","l","d"," ","w","o","m","a","n"," ","w","i","t","h"," ","b","r","e","a","s","t"," ","c","a","n","c","e","r",".">>
       [] s = "unrelated text" ->
            <<"u","n","r","e","l","a","t","e","d"," ","t","e","x","t">>
       [] s = "old mammary" ->
            <<"o","l","d"," ","m","a","m","m","a","r","y">>
       [] s = "surgery" ->
            <<"s","u","r","g","e","r","y">>
       [] s = "oxygen" ->
            <<"o","x","y","g","e","n">>
       [] s = "cancer drug" ->
            <<"c","a","n","c","e","r"," ","d","r","u","g">>
       [] s = "old old" ->
            <<"o","l","d"," ","o","l","d">>
       [] s = "is old" ->
            <<"i","s"," ","o","l","d">>
       [] s = "Tumor" ->
            <<"T","u","m","o","r">>
       [] s = "woman" ->
            <<"w","o","m","a","n">>
       [] s = "old breast cancer bone" ->
            <<"o","l","d"," ","b","r","e","a","s","t"," ","c","a","n","c","e","r"," ","b","o","n","e">>
       [] s = "ARDS" ->
            <<"A","R","D","S">>
       [] s = "xy" ->
            <<"x","y">>
       [] s = "mammary" ->
            <<"m","a","m","m","a","r","y">>
       [] s = "Blood Pressure test" ->
            <<"B","l","o","o","d"," ","P","r","e","s","s","u","r","e"," ","t","e","s","t">>
       [] s = "PaO2 chf" ->
            <<"P","a","O","2"," ","c","h","f">>
       [] s = "osa pbss" ->
            <<"o","s","a"," ","p","b","s","s">>
       [] s = "ablation" ->
            <<"a","b","l","a","t","i","o","n">>
       [] s = "pulse" ->
            <<"p","u","l","s","e">>
       [] s = "bold" ->
            <<"b","o","l","d">>
       [] s = "this is bold" ->
            <<"t","h","i","s"," ","i","s"," ","b","o","l","d">>
       [] s = "carcinoma" ->
            <<"c","a","r","c","i","n","o","m","a">>
       [] s = "year-old breast cancer bone" ->
            <<"y","e","a","r","-","o","l","d"," ","b","r","e","a","s","t"," ","c","a","n","c","e","r"," ","b","o","n","e">>
       [] s = "propofol tumor" ->
            <<"p","r","o","p","o","f","o","l"," ","t","u","m","o","r">>
       [] s = "hemoglobin" ->
            <<"h","e","m","o","g","l","o","b","i","n">>
       [] s = "pao2 and CHF" ->
            <<"p","a","o","2"," ","a","n","d"," ","C","H","F">>
       [] s = "PBSS for OSA" ->
            <<"P","B","S","S"," ","f","o","r"," ","O","S","A">>
       [] s = "ards pneumonitis" ->
            <<"a","r","d","s"," ","p","n","e","u","m","o","n","i","t","i","s">>
       [] s = "he is older" ->
            <<"h","e"," ","i","s"," ","o","l","d","e","r">>
       [] s = "age" ->
            <<"a","g","e">>
       [] s = "sex" ->
            <<"s","e","x">>
       [] s = "diagnosis" ->
            <<"d","i","a","g","n","o","s","i","s">>
       [] s = "medication" ->
            <<"m","e","d","i","c","a","t","i","o","n">>
       [] s = "procedure" ->
            <<"p","r","o","c","e","d","u","r","e">>
       [] s = "complication" ->
            <<"c","o","m","p","l","i","c","a","t","i","o","n">>
       [] s = "outcome" ->
            <<"o","u","t","c","o","m","e">>
       [] s = "Gender and Age" ->
            <<"G","e","n","d","e","r"," ","a","n","d"," ","A","g","e">>
       [] s = "A man in his 70s." ->
            <<"A"," ","m","a","n"," ","i","n"," ","h","i","s"," ","7","0","s",".">>
       [] s = "She is 65 years old Female." ->
            <<"S","h","e"," ","i","s"," ","6","5"," ","y","e","a","r","s"," ","o","l","d"," ","F","e","m","a","l","e",".">>
       [] s = "Propofol 100 MG iv, fentanyl drip" ->
            <<"P","r","o","p","o","f","o","l"," ","1","0","0"," ","M","G"," ","i","v",","," ","f","e","n","t","a","n","y","l"," ","d","r","i","p">>
       [] s = "history of hypertension, developed sepsis " ->
            <<"h","i","s","t","o","r","y"," ","o","f"," ","h","y","p","e","r","t","e","n","s","i","o","n",","," ","d","e","v","e","l","o","p","e","d"," ","s","e","p","s","i","s"," ">>
       [] s = "underwent surgery: bypass. She died" ->
            <<"u","n","d","e","r","w","e","n","t"," ","s","u","r","g","e","r","y",":"," ","b","y","p","a","s","s","."," ","S","h","e"," ","d","i","e","d">>
       [] s = "Age: 74" ->
            <<"A","g","e",":"," ","7","4">>
       [] s = "Age 74, old age." ->
            <<"A","g","e"," ","7","4",","," ","o","l","d"," ","a","g","e",".">>
       [] s = "a page on the ward" ->
            <<"a"," ","p","a","g","e"," ","o","n"," ","t","h","e"," ","w","a","r","d">>
       [] s = "Age" ->
            <<"A","g","e">>
       [] s = "ward" ->
            <<"w","a","r","d">>
       [] s = "old" ->
            <<"o","l","d">>
       [] s = "year" ->
            <<"y","e","a","r">>
       [] s = "male" ->
            <<"m","a","l","e">>
       [] s = "female" ->
            <<"f","e","m","a","l","e">>
       [] s = "man" ->
            <<"m","a","n">>
       [] s = "gender" ->
            <<"g","e","n","d","e","r">>
       [] s = "condition" ->
            <<"c","o","n","d","i","t","i","o","n">>
       [] s = "disease" ->
            <<"d","i","s","e","a","s","e">>
       [] s = "cancer" ->
            <<"c","a","n","c","e","r">>
       [] s = "failure" ->
            <<"f","a","i","l","u","r","e">>
       [] s = "apnea" ->
            <<"a","p","n","e","a">>
       [] s = "amyloidosis" ->
            <<"a","m","y","l","o","i","d","o","s","i","s">>
       [] s = "diabetes" ->
            <<"d","i","a","b","e","t","e","s">>
       [] s = "hypertension" ->
            <<"h","y","p","e","r","t","e","n","s","i","o","n">>
       [] s = "fibrillation" ->
            <<"f","i","b","r","i","l","l","a","t","i","o","n">>
       [] s = "obstructive" ->
            <<"o","b","s","t","r","u","c","t","i","v","e">>
       [] s = "sleep" ->
            <<"s","l","e","e","p">>
       [] s = "heart" ->
            <<"h","e","a","r","t">>
       [] s = "coronary" ->
            <<"c","o","r","o","n","a","r","y">>
       [] s = "atrial" ->
            <<"a","t","r","i","a","l">>
       [] s = "cardiac" ->
            <<"c","a","r","d","i","a","c">>
       [] s = "drug" ->
            <<"d","r","u","g">>
       [] s = "medicine" ->
            <<"m","e","d","i","c","i","n","e">>
       [] s = "propofol" ->
            <<"p","r","o","p","o","f","o","l">>
       [] s = "remifentanil" ->
            <<"r","e","m","i","f","e","n","t","a","n","i","l">>
       [] s = "rivaroxaban" ->
            <<"r","i","v","a","r","o","x","a","b","a","n">>
       [] s = "naproxen" ->
            <<"n","a","p","r","o","x","e","n">>
       [] s = "vasopressor" ->
            <<"v","a","s","o","p","r","e","s","s","o","r">>
       [] s = "drip" ->
            <<"d","r","i","p">>
       [] s = "infusion" ->
            <<"i","n","f","u","s","i","o","n">>
       [] s = "injection" ->
            <<"i","n","j","e","c","t","i","o","n">>
       [] s = "mg" ->
            <<"m","g">>
       [] s = "mcg" ->
            <<"m","c","g">>
       [] s = "ml" ->
            <<"m","l">>
       [] s = "operation" ->
            <<"o","p","e","r","a","t","i","o","n">>
       [] s = "intervention" ->
            <<"i","n","t","e","r","v","e","n","t","i","o","n">>
       [] s = "performed" ->
            <<"p","e","r","f","o","r","m","e","d">>
       [] s = "underwent" ->
            <<"u","n","d","e","r","w","e","n","t">>
       [] s = "placed" ->
            <<"p","l","a","c","e","d">>
       [] s = "PCI" ->
            <<"P","C","I">>
       [] s = "intubation" ->
            <<"i","n","t","u","b","a","t","i","o","n">>
       [] s = "catheter" ->
            <<"c","a","t","h","e","t","e","r">>
       [] s = "endotracheal" ->
            <<"e","n","d","o","t","r","a","c","h","e","a","l">>
       [] s = "problem" ->
            <<"p","r","o","b","l","e","m">>
       [] s = "issue" ->
            <<"i","s","s","u","e">>
       [] s = "hypotension" ->
            <<"h","y","p","o","t","e","n","s","i","o","n">>
       [] s = "pressure" ->
            <<"p","r","e","s","s","u","r","e">>
       [] s = "drop" ->
            <<"d","r","o","p">>
       [] s = "tachycardic" ->
            <<"t","a","c","h","y","c","a","r","d","i","c">>
       [] s = "bradycardic" ->
            <<"b","r","a","d","y","c","a","r","d","i","c">>
       [] s = "arrhythmia" ->
            <<"a","r","r","h","y","t","h","m","i","a">>
       [] s = "result" ->
            <<"r","e","s","u","l","t">>
       [] s = "discharge" ->
            <<"d","i","s","c","h","a","r","g","e">>
       [] s = "died" ->
            <<"d","i","e","d">>
       [] s = "survived" ->
            <<"s","u","r","v","i","v","e","d">>
       [] s = "recovered" ->
            <<"r","e","c","o","v","e","r","e","d">>
       [] s = "improved" ->
            <<"i","m","p","r","o","v","e","d">>
       [] s = "transferred" ->
            <<"t","r","a","n","s","f","e","r","r","e","d">>
       [] s = "ICU" ->
            <<"I","C","U">>
       [] s = "SICU" ->
            <<"S","I","C","U">>
       [] s = "blood pressure" ->
            <<"b","l","o","o","d"," ","p","r","e","s","s","u","r","e">>
       [] s = "heart rate" ->
            <<"h","e","a","r","t"," ","r","a","t","e">>
       [] s = "HR" ->
            <<"H","R">>
       [] s = "BP" ->
            <<"B","P">>
       [] s = "ABP" ->
            <<"A","B","P">>
       [] s = "bpm" ->
            <<"b","p","m">>
       [] s = "mm Hg" ->
            <<"m","m"," ","H","g">>
       [] s = "saturation" ->
            <<"s","a","t","u","r","a","t","i","o","n">>
       [] s = "temperature" ->
            <<"t","e","m","p","e","r","a","t","u","r","e">>
       [] s = "respiratory rate" ->
            <<"r","e","s","p","i","r","a","t","o","r","y"," ","r","a","t","e">>
       [] s = "lab" ->
            <<"l","a","b">>
       [] s = "laboratory" ->
            <<"l","a","b","o","r","a","t","o","r","y">>
       [] s = "blood" ->
            <<"b","l","o","o","d">>
       [] s = "test" ->
            <<"t","e","s","t">>
       [] s = "value" ->
            <<"v","a","l","u","e">>
       [] s = "level" ->
            <<"l","e","v","e","l">>
       [] s = "count" ->
            <<"c","o","u","n","t">>
       [] s = "hematocrit" ->
            <<"h","e","m","a","t","o","c","r","i","t">>
       [] s = "glucose" ->
            <<"g","l","u","c","o","s","e">>
       [] s = "creatinine" ->
            <<"c","r","e","a","t","i","n","i","n","e">>
       [] s = "BUN" ->
            <<"B","U","N">>
       [] s = "Pain" ->
            <<"P","a","i","n">>
       [] s = "10001 medicine" ->
            <<"1","0","0","0","1"," ","m","e","d","i","c","i","n","e">>
       [] s = "stent no" ->
            <<"s","t","e","n","t"," ","n","o">>
       [] s = "10001" ->
            <<"1","0","0","0","1">>
       [] s = "F" ->
            <<"F">>
       [] s = "MEDICINE" ->
            <<"M","E","D","I","C","I","N","E">>
       [] s = "Chest pain" ->
            <<"C","h","e","s","t"," ","p","a","i","n">>
       [] s = "Sex: F\nService: MEDICINE\nChief Complaint: Chest pain\n\nChest pain on exertion, pain at rest." ->
            <<"S","e","x",":"," ","F","\n","S","e","r","v","i","c","e",":"," ","M","E","D","I","C","I","N","E","\n","C","h","i","e","f"," ","C","o","m","p","l","a","i","n","t",":"," ","C","h","e","s","t"," ","p","a","i","n","\n","\n","C","h","e","s","t"," ","p","a","i","n"," ","o","n"," ","e","x","e","r","t","i","o","n",","," ","p","a","i","n"," ","a","t"," ","r","e","s","t",".">>
       [] s = "10002" ->
            <<"1","0","0","0","2">>
       [] s = "M" ->
            <<"M">>
       [] s = "SURGERY" ->
            <<"S","U","R","G","E","R","Y">>
       [] s = "Sex: M\nService: SURGERY\n\nNo pain. Stent placed." ->
            <<"S","e","x",":"," ","M","\n","S","e","r","v","i","c","e",":"," ","S","U","R","G","E","R","Y","\n","\n","N","o"," ","p","a","i","n","."," ","S","t","e","n","t"," ","p","l","a","c","e","d",".">>
       [] s = "stent" ->
            <<"s","t","e","n","t">>
       [] s = "10003" ->
            <<"1","0","0","0","3">>
       [] s = "10004" ->
            <<"1","0","0","0","4">>
       [] s = "aspirin" ->
            <<"a","s","p","i","r","i","n">>
       [] s = "Service: MEDICINE\nAllergies: aspirin\n\nno painkillers" ->
            <<"S","e","r","v","i","c","e",":"," ","M","E","D","I","C","I","N","E","\n","A","l","l","e","r","g","i","e","s",":"," ","a","s","p","i","r","i","n","\n","\n","n","o"," ","p","a","i","n","k","i","l","l","e","r","s">>
       [] s = "k" ->
            <<"k">>]

\* ------------------------------------------------------- string helpers
\* str.lower() on ASCII letters.
upper_to_lower ==
  [c \in {"A","B","C","D","E","F","G","H","I","J","K","L","M","N","O","P","Q","R","S","T","U","V","W","X","Y","Z"} |->
     CASE c = "A" -> "a"
       [] c = "B" -> "b"
       [] c = "C" -> "c"
       [] c = "D" -> "d"
       [] c = "E" -> "e"
       [] c = "F" -> "f"
       [] c = "G" -> "g"
       [] c = "H" -> "h"
       [] c = "I" -> "i"
       [] c = "J" -> "j"
       [] c = "K" -> "k"
       [] c = "L" -> "l"
       [] c = "M" -> "m"
       [] c = "N" -> "n"
       [] c = "O" -> "o"
       [] c = "P" -> "p"
       [] c = "Q" -> "q"
       [] c = "R" -> "r"
       [] c = "S" -> "s"
       [] c = "T" -> "t"
       [] c = "U" -> "u"
       [] c = "V" -> "v"
       [] c = "W" -> "w"
       [] c = "X" -> "x"
       [] c = "Y" -> "y"
       [] c = "Z" -> "z"]

lower(s) ==
  [i \in 1..Len(s) |->
     IF s[i] \in DOMAIN upper_to_lower THEN upper_to_lower[s[i]] ELSE s[i]]

\* Characters str.split() treats as separators.
whitespace == {" ", "\t", "\n", "\r", "\f"}

RECURSIVE split_at(_, _, _)
split_at(s, i, word) ==
  IF i > Len(s)
  THEN IF word = <<>> THEN <<>> ELSE <<word>>
  ELSE IF s[i] \in whitespace
       THEN (IF word = <<>> THEN <<>> ELSE <<word>>) \o split_at(s, i + 1, <<>>)
       ELSE split_at(s, i + 1, Append(word, s[i]))

\* str.split(): the maximal runs of non-whitespace characters.
split(s) == split_at(s, 1, <<>>)

\* Python's `sub in s` on strings; the empty string is in every string.
contains(sub, s) ==
  \E i \in 0..(Len(s) - Len(sub)) : SubSeq(s, i + 1, i + Len(sub)) = sub

\* any(term in text for term in terms)
any_term_in(terms, text) == \E j \in DOMAIN terms : contains(terms[j], text)

\* ------------------------------------------------------------ term tables
\* medical_terms, in dict order: patient, diagnosis, treatment, medication,
\* complications, procedure, vitals, lab.
medical_terms ==
  << \* patient
     << <<"p","a","t","i","e","n","t">>,
        <<"w","o","m","a","n">>,
        <<"w","o","m","a","n">>,
        <<"m","a","n">>,
        <<"m","a","l","e">>,
        <<"f","e","m","a","l","e">>,
        <<"y","e","a","r","-","o","l","d">> >>,
     \* diagnosis
     << <<"d","i","a","g","n","o","s","i","s">>,
        <<"c","a","n","c","e","r">>,
        <<"c","a","r","c","i","n","o","m","a">>,
        <<"m","e","t","a","s","t","a","s","e","s">>,
        <<"t","u","m","o","r">>,
        <<"d","i","s","e","a","s","e">> >>,
     \* treatment
     << <<"t","r","e","a","t","m","e","n","t">>,
        <<"c","h","e","m","o","t","h","e","r","a","p","y">>,
        <<"r","a","d","i","a","t","i","o","n">>,
        <<"s","u","r","g","e","r","y">>,
        <<"a","b","l","a","t","i","o","n">>,
        <<"t","h","e","r","a","p","y">> >>,
     \* medication
     << <<"m","e","d","i","c","a","t","i","o","n">>,
        <<"d","r","u","g">>,
        <<"p","r","o","p","o","f","o","l">>,
        <<"r","e","m","i","f","e","n","t","a","n","i","l">>,
        <<"l","i","d","o","c","a","i","n","e">>,
        <<"m","e","d","i","c","i","n","e">> >>,
     \* complications
     << <<"c","o","m","p","l","i","c","a","t","i","o","n","s">>,
        <<"r","e","s","p","i","r","a","t","o","r","y">>,
        <<"d","i","s","t","r","e","s","s">>,
        <<"A","R","D","S">>,
        <<"p","n","e","u","m","o","n","i","t","i","s">>,
        <<"p","r","o","b","l","e","m","s">> >>,
     \* procedure
     << <<"p","r","o","c","e","d","u","r","e">>,
        <<"s","u","r","g","e","r","y">>,
        <<"a","b","l","a","t","i","o","n">>,
        <<"P","B","S","S">>,
        <<"s","c","r","e","w">>,
        <<"o","p","e","r","a","t","i","o","n">> >>,
     \* vitals
     << <<"v","i","t","a","l","s">>,
        <<"b","l","o","o","d"," ","p","r","e","s","s","u","r","e">>,
        <<"h","e","a","r","t"," ","r","a","t","e">>,
        <<"o","x","y","g","e","n">>,
        <<"t","e","m","p","e","r","a","t","u","r","e">>,
        <<"p","u","l","s","e">> >>,
     \* lab
     << <<"l","a","b">>,
        <<"b","l","o","o","d">>,
        <<"h","e","m","o","g","l","o","b","i","n">>,
        <<"o","x","y","g","e","n">>,
        <<"P","a","O","2">>,
        <<"t","e","s","t">>,
        <<"r","e","s","u","l","t","s">>,
        <<"O","S","A">>,
        <<"o","b","s","t","r","u","c","t","i","v","e"," ","s","l","e","e","p"," ","a","p","n","e","a">>,
        <<"C","H","F">>,
        <<"c","o","n","g","e","s","t","i","v","e"," ","h","e","a","r","t"," ","f","a","i","l","u","r","e">> >> >>

\* Term lists of the four special-handling rules (query side, document side).
age_query_terms ==
  << <<"a","g","e">>, <<"o","l","d">>, <<"y","e","a","r">> >>
age_doc_terms ==
  << <<"y","e","a","r","-","o","l","d">>, <<"y","e","a","r","s"," ","o","l","d">>, <<"a","g","e">> >>
cancer_query_terms ==
  << <<"c","a","n","c","e","r">>, <<"c","a","r","c","i","n","o","m","a">>, <<"t","u","m","o","r">> >>
cancer_doc_terms ==
  << <<"c","a","r","c","i","n","o","m","a">>, <<"t","u","m","o","r">>, <<"m","e","t","a","s","t","a","s","e","s">>, <<"c","a","n","c","e","r">> >>
breast_query_terms ==
  << <<"b","r","e","a","s","t">>, <<"m","a","m","m","a","r","y">> >>
breast_doc_terms ==
  << <<"b","r","e","a","s","t">> >>
bone_query_terms ==
  << <<"b","o","n","e">>, <<"s","a","c","r","a","l">>, <<"s","a","c","r","o","i","l","i","a","c">> >>
bone_doc_terms ==
  << <<"s","a","c","r","a","l">>, <<"s","a","c","r","o","i","l","i","a","c">>, <<"b","o","n","e">> >>

\* The four rules as (query-side terms, document-side terms) pairs.
special_rules ==
  << <<age_query_terms, age_doc_terms>>,
     <<cancer_query_terms, cancer_doc_terms>>,
     <<breast_query_terms, breast_doc_terms>>,
     <<bone_query_terms, bone_doc_terms>> >>

\* ---------------------------------------------------------------- scoring
\* Faulty variant: the containment test the wrong way round.
exact_phrase_bonus_reversed(query_lower, doc_lower) ==
  IF contains(doc_lower, query_lower) THEN 15 ELSE 0

\* Faulty variant: the bonus only for a document that is the query.
exact_phrase_bonus_whole_document(query_lower, doc_lower) ==
  IF query_lower = doc_lower THEN 15 ELSE 0

exact_phrase_bonus(query_lower, doc_lower) ==
  IF contains(query_lower, doc_lower) THEN 15 ELSE 0

\* Faulty variant: the bonus needs one term found in both query and document.
category_bonus_same_term(query_lower, doc_lower) ==
  8 * Cardinality({c \in DOMAIN medical_terms :
                     \E j \in DOMAIN medical_terms[c] :
                       /\ contains(medical_terms[c][j], query_lower)
                       /\ contains(medical_terms[c][j], doc_lower)})

\* Faulty variant: the table terms are lowercased before they are looked for.
category_bonus_lowered_terms(query_lower, doc_lower) ==
  8 * Cardinality({c \in DOMAIN medical_terms :
                     /\ \E j \in DOMAIN medical_terms[c] : contains(lower(medical_terms[c][j]), query_lower)
                     /\ \E j \in DOMAIN medical_terms[c] : contains(lower(medical_terms[c][j]), doc_lower)})

\* +8 for every category with a term in the query and a term in the document.
category_bonus(query_lower, doc_lower) ==
  8 * Cardinality({c \in DOMAIN medical_terms :
                     /\ any_term_in(medical_terms[c], query_lower)
                     /\ any_term_in(medical_terms[c], doc_lower)})

\* Faulty variant: the length test off by one, len(word) >= 2.
word_bonus_len2(query_words, doc_lower) ==
  2 * Cardinality({w \in DOMAIN query_words :
                     /\ Len(query_words[w]) >= 2
                     /\ contains(query_words[w], doc_lower)})

\* +2 for every query word (by position) longer than 2 found in the document.
word_bonus(query_words, doc_lower) ==
  2 * Cardinality({w \in DOMAIN query_words :
                     /\ Len(query_words[w]) > 2
                     /\ contains(query_words[w], doc_lower)})

\* Faulty variant: the rules chained with elif, so only the first hit counts.
special_bonus_first_only(query_lower, doc_lower) ==
  IF \E k \in DOMAIN special_rules :
       /\ any_term_in(special_rules[k][1], query_lower)
       /\ any_term_in(special_rules[k][2], doc_lower)
  THEN 10 ELSE 0

\* +10 for every special-handling rule whose two sides both hit.
special_bonus(query_lower, doc_lower) ==
  10 * Cardinality({k \in DOMAIN special_rules :
                      /\ any_term_in(special_rules[k][1], query_lower)
                      /\ any_term_in(special_rules[k][2], doc_lower)})

\* The score run() gives a document with this content for this query.
score(query, content) ==
  LET query_lower == lower(chars[query])
      query_words == split(query_lower)
      doc_lower   == lower(chars[content])
  IN  exact_phrase_bonus(query_lower, doc_lower)
      + category_bonus(query_lower, doc_lower)
      + word_bonus(query_words, doc_lower)
      + special_bonus(query_lower, doc_lower)

\* The scores of the scoring loop, computed once per (query, content).
scores == [q \in Queries, c \in Contents |-> score(q, c)]

\* scored_docs after the loop: one (score, doc) pair per document, in order.
score_all(query, docs) ==
  [i \in 1..Len(docs) |-> <<scores[query, docs[i].content], docs[i]>>]

\* ---------------------------------------------------- sort and selection
\* Faulty variant: x goes in front of the pairs with an equal score.
insert_desc_before_ties(sorted, x) ==
  LET n == Cardinality({i \in DOMAIN sorted : sorted[i][1] > x[1]})
  IN  SubSeq(sorted, 1, n) \o <<x>> \o SubSeq(sorted, n + 1, Len(sorted))

\* Position-preserving insertion of x behind every pair scoring >= x.
insert_desc(sorted, x) ==
  LET n == Cardinality({i \in DOMAIN sorted : sorted[i][1] >= x[1]})
  IN  SubSeq(sorted, 1, n) \o <<x>> \o SubSeq(sorted, n + 1, Len(sorted))

RECURSIVE sort_asc(_)
sort_asc(s) ==
  IF s = <<>> THEN <<>>
  ELSE LET rest == sort_asc(SubSeq(s, 1, Len(s) - 1))
           x    == s[Len(s)]
           n    == Cardinality({i \in DOMAIN rest : rest[i][1] <= x[1]})
       IN  SubSeq(rest, 1, n) \o <<x>> \o SubSeq(rest, n + 1, Len(rest))

\* Faulty variant: reverse=True forgotten, an ascending sort.
sort_asc_only(s) == sort_asc(s)

\* Faulty variant: an ascending sort followed by a reversal, which reverses ties.
sort_asc_reversed(s) ==
  LET a == sort_asc(s) IN [i \in 1..Len(a) |-> a[Len(a) + 1 - i]]

RECURSIVE sort_desc(_)
\* list.sort(key=lambda x: x[0], reverse=True): descending by score, stable.
sort_desc(s) ==
  IF s = <<>> THEN <<>>
  ELSE insert_desc(sort_desc(SubSeq(s, 1, Len(s) - 1)), s[Len(s)])

\* Faulty variant: the slice bound off by one, s[:k + 1].
slice_to_one_more(s, k) ==
  SubSeq(s, 1, IF k + 1 < Len(s) THEN k + 1 ELSE Len(s))

\* Python's s[:k], negative k counting from the end.
slice_to(s, k) ==
  IF k >= 0
  THEN SubSeq(s, 1, IF k < Len(s) THEN k ELSE Len(s))
  ELSE SubSeq(s, 1, IF Len(s) + k > 0 THEN Len(s) + k ELSE 0)

\* Faulty variant: the filter keeps zero scores, score >= 0.
positive_docs_keep_zero(pairs) ==
  LET kept == SelectSeq(pairs, LAMBDA p : p[1] >= 0)
  IN  [i \in 1..Len(kept) |-> kept[i][2]]

\* [doc for score, doc in pairs if score > 0]
positive_docs(pairs) ==
  LET kept == SelectSeq(pairs, LAMBDA p : p[1] > 0)
  IN  [i \in 1..Len(kept) |-> kept[i][2]]

\* [doc for score, doc in pairs]
all_docs(pairs) == [i \in 1..Len(pairs) |-> pairs[i][2]]

\* Faulty variant: no fallback when nothing scores above 0.
select_top_no_fallback(sorted, k, docs) ==
  positive_docs(slice_to(sorted, k))

\* Faulty variant: an empty selection is replaced by a placeholder document.
select_top_placeholder(sorted, k, docs) ==
  LET top == positive_docs(slice_to(sorted, k))
  IN  IF top # <<>> THEN top
      ELSE IF docs # <<>> THEN all_docs(slice_to(sorted, k))
      ELSE <<[content |-> "", meta |-> [paragraph_id |-> 0]]>>

\* top_docs as computed from the sorted pairs: the positive-score documents
\* of the first top_k pairs, or, when there are none and the corpus is not
\* empty, the first top_k documents regardless of score.
select_top(sorted, k, docs) ==
  LET top == positive_docs(slice_to(sorted, k))
  IN  IF top = <<>> /\ docs # <<>> THEN all_docs(slice_to(sorted, k)) ELSE top

\* ------------------------------------------- intelligent_medical_extractor
\* Character categories of the regular expressions (\d, \s, \w), given in
\* lower case: every pattern is used with re.IGNORECASE and the matcher
\* compares the lower-cased text character.
digit_chars == {"0","1","2","3","4","5","6","7","8","9"}

space_chars == whitespace

word_chars ==
  {upper_to_lower[c] : c \in DOMAIN upper_to_lower} \cup digit_chars \cup {"_"}

\* Nodes of a parsed regular expression.
\* Lit: a run of literal characters.
Lit(s) == [k |-> "lit", s |-> s]

\* Rep: a character class (negated when neg) repeated min..max times
\* (max = -1: unbounded), greedy unless lazy.
Rep(cls, neg, min, max, lazy) ==
  [k |-> "rep", cls |-> cls, neg |-> neg, min |-> min, max |-> max, lazy |-> lazy]

\* Open / Close: start and end of capturing group g.
Open(g) == [k |-> "open", g |-> g]

Close(g) == [k |-> "close", g |-> g]

\* Alt: ordered alternatives a|b|c, each a node sequence.
Alt(alts) == [k |-> "alt", alts |-> alts]

\* self.extraction_patterns: for each category its regular expressions in
\* list order, each with its source text, its number of capturing groups and
\* its parsed form.
extraction_patterns ==
  [category \in {"age", "sex", "diagnosis", "medications", "procedures", "complications", "outcomes"} |->
     CASE category = "age" -> <<
         \* (\d+)-year-old
         [source |-> <<"(","\\","d","+",")","-","y","e","a","r","-","o","l","d">>,
          groups |-> 1,
          nodes |-> <<Open(1),
                      Rep(digit_chars, FALSE, 1, -1, FALSE),
                      Close(1),
                      Lit(<<"-","y","e","a","r","-","o","l","d">>)>>],
         \* (\d+)\s*year[s]?\s*old
         [source |-> <<"(","\\","d","+",")","\\","s","*","y","e","a","r","[","s","]","?","\\","s","*","o","l","d">>,
          groups |-> 1,
          nodes |-> <<Open(1),
                      Rep(digit_chars, FALSE, 1, -1, FALSE),
                      Close(1),
                      Rep(space_chars, FALSE, 0, -1, FALSE),
                      Lit(<<"y","e","a","r">>),
                      Rep({"s"}, FALSE, 0, 1, FALSE),
                      Rep(space_chars, FALSE, 0, -1, FALSE),
                      Lit(<<"o","l","d">>)>>],
         \* age[:\s]+(\d+)
         [source |-> <<"a","g","e","[",":","\\","s","]","+","(","\\","d","+",")">>,
          groups |-> 1,
          nodes |-> <<Lit(<<"a","g","e">>),
                      Rep({":"} \cup space_chars, FALSE, 1, -1, FALSE),
                      Open(1),
                      Rep(digit_chars, FALSE, 1, -1, FALSE),
                      Close(1)>>],
         \* (\d+)\s*years?\s*of\s*age
         [source |-> <<"(","\\","d","+",")","\\","s","*","y","e","a","r","s","?","\\","s","*","o","f","\\","s","*","a","g","e">>,
          groups |-> 1,
          nodes |-> <<Open(1),
                      Rep(digit_chars, FALSE, 1, -1, FALSE),
                      Close(1),
                      Rep(space_chars, FALSE, 0, -1, FALSE),
                      Lit(<<"y","e","a","r">>),
                      Rep({"s"}, FALSE, 0, 1, FALSE),
                      Rep(space_chars, FALSE, 0, -1, FALSE),
                      Lit(<<"o","f">>),
                      Rep(space_chars, FALSE, 0, -1, FALSE),
                      Lit(<<"a","g","e">>)>>],
         \* in\s*his\s*(\d+)s
         [source |-> <<"i","n","\\","s","*","h","i","s","\\","s","*","(","\\","d","+",")","s">>,
          groups |-> 1,
          nodes |-> <<Lit(<<"i","n">>),
                      Rep(space_chars, FALSE, 0, -1, FALSE),
                      Lit(<<"h","i","s">>),
                      Rep(space_chars, FALSE, 0, -1, FALSE),
                      Open(1),
                      Rep(digit_chars, FALSE, 1, -1, FALSE),
                      Close(1),
                      Lit(<<"s">>)>>],
         \* in\s*her\s*(\d+)s
         [source |-> <<"i","n","\\","s","*","h","e","r","\\","s","*","(","\\","d","+",")","s">>,
          groups |-> 1,
          nodes |-> <<Lit(<<"i","n">>),
                      Rep(space_chars, FALSE, 0, -1, FALSE),
                      Lit(<<"h","e","r">>),
                      Rep(space_chars, FALSE, 0, -1, FALSE),
                      Open(1),
                      Rep(digit_chars, FALSE, 1, -1, FALSE),
                      Close(1),
                      Lit(<<"s">>)>>],
         \* (\d+)-year-old\s*(male|female|man|woman)
         [source |-> <<"(","\\","d","+",")","-","y","e","a","r","-","o","l","d","\\","s","*","(","m","a","l","e","|","f","e","m","a","l","e","|","m","a","n","|","w","o","m","a","n",")">>,
          groups |-> 2,
          nodes |-> <<Open(1),
                      Rep(digit_chars, FALSE, 1, -1, FALSE),
                      Close(1),
                      Lit(<<"-","y","e","a","r","-","o","l","d">>),
                      Rep(space_chars, FALSE, 0, -1, FALSE),
                      Open(2),
                      Alt(<<<<Lit(<<"m","a","l","e">>)>>, <<Lit(<<"f","e","m","a","l","e">>)>>, <<Lit(<<"m","a","n">>)>>, <<Lit(<<"w","o","m","a","n">>)>>>>),
                      Close(2)>>],
         \* (\d+)\s*year[s]?\s*old\s*(male|female|man|woman)
         [source |-> <<"(","\\","d","+",")","\\","s","*","y","e","a","r","[","s","]","?","\\","s","*","o","l","d","\\","s","*","(","m","a","l","e","|","f","e","m","a","l","e","|","m","a","n","|","w","o","m","a","n",")">>,
          groups |-> 2,
          nodes |-> <<Open(1),
                      Rep(digit_chars, FALSE, 1, -1, FALSE),
                      Close(1),
                      Rep(space_chars, FALSE, 0, -1, FALSE),
                      Lit(<<"y","e","a","r">>),
                      Rep({"s"}, FALSE, 0, 1, FALSE),
                      Rep(space_chars, FALSE, 0, -1, FALSE),
                      Lit(<<"o","l","d">>),
                      Rep(space_chars, FALSE, 0, -1, FALSE),
                      Open(2),
                      Alt(<<<<Lit(<<"m","a","l","e">>)>>, <<Lit(<<"f","e","m","a","l","e">>)>>, <<Lit(<<"m","a","n">>)>>, <<Lit(<<"w","o","m","a","n">>)>>>>),
                      Close(2)>>] >>
       [] category = "sex" -> <<
         \* (male|female|man|woman)
         [source |-> <<"(","m","a","l","e","|","f","e","m","a","l","e","|","m","a","n","|","w","o","m","a","n",")">>,
          groups |-> 1,
          nodes |-> <<Open(1),
                      Alt(<<<<Lit(<<"m","a","l","e">>)>>, <<Lit(<<"f","e","m","a","l","e">>)>>, <<Lit(<<"m","a","n">>)>>, <<Lit(<<"w","o","m","a","n">>)>>>>),
                      Close(1)>>],
         \* (\d+)[-\s]year[s]?\s*old\s*(male|female|man|woman)
         [source |-> <<"(","\\","d","+",")","[","-","\\","s","]","y","e","a","r","[","s","]","?","\\","s","*","o","l","d","\\","s","*","(","m","a","l","e","|","f","e","m","a","l","e","|","m","a","n","|","w","o","m","a","n",")">>,
          groups |-> 2,
          nodes |-> <<Open(1),
                      Rep(digit_chars, FALSE, 1, -1, FALSE),
                      Close(1),
                      Rep({"-"} \cup space_chars, FALSE, 1, 1, FALSE),
                      Lit(<<"y","e","a","r">>),
                      Rep({"s"}, FALSE, 0, 1, FALSE),
                      Rep(space_chars, FALSE, 0, -1, FALSE),
                      Lit(<<"o","l","d">>),
                      Rep(space_chars, FALSE, 0, -1, FALSE),
                      Open(2),
                      Alt(<<<<Lit(<<"m","a","l","e">>)>>, <<Lit(<<"f","e","m","a","l","e">>)>>, <<Lit(<<"m","a","n">>)>>, <<Lit(<<"w","o","m","a","n">>)>>>>),
                      Close(2)>>] >>
       [] category = "diagnosis" -> <<
         \* diagnosis[:\s]+([^.]+)
         [source |-> <<"d","i","a","g","n","o","s","i","s","[",":","\\","s","]","+","(","[","^",".","]","+",")">>,
          groups |-> 1,
          nodes |-> <<Lit(<<"d","i","a","g","n","o","s","i","s">>),
                      Rep({":"} \cup space_chars, FALSE, 1, -1, FALSE),
                      Open(1),
                      Rep({"."}, TRUE, 1, -1, FALSE),
                      Close(1)>>],
         \* condition[:\s]+([^.]+)
         [source |-> <<"c","o","n","d","i","t","i","o","n","[",":","\\","s","]","+","(","[","^",".","]","+",")">>,
          groups |-> 1,
          nodes |-> <<Lit(<<"c","o","n","d","i","t","i","o","n">>),
                      Rep({":"} \cup space_chars, FALSE, 1, -1, FALSE),
                      Open(1),
                      Rep({"."}, TRUE, 1, -1, FALSE),
                      Close(1)>>],
         \* history\s+of\s+([^.]+)
         [source |-> <<"h","i","s","t","o","r","y","\\","s","+","o","f","\\","s","+","(","[","^",".","]","+",")">>,
          groups |-> 1,
          nodes |-> <<Lit(<<"h","i","s","t","o","r","y">>),
                      Rep(space_chars, FALSE, 1, -1, FALSE),
                      Lit(<<"o","f">>),
                      Rep(space_chars, FALSE, 1, -1, FALSE),
                      Open(1),
                      Rep({"."}, TRUE, 1, -1, FALSE),
                      Close(1)>>],
         \* presented\s+with\s+([^.]+)
         [source |-> <<"p","r","e","s","e","n","t","e","d","\\","s","+","w","i","t","h","\\","s","+","(","[","^",".","]","+",")">>,
          groups |-> 1,
          nodes |-> <<Lit(<<"p","r","e","s","e","n","t","e","d">>),
                      Rep(space_chars, FALSE, 1, -1, FALSE),
                      Lit(<<"w","i","t","h">>),
                      Rep(space_chars, FALSE, 1, -1, FALSE),
                      Open(1),
                      Rep({"."}, TRUE, 1, -1, FALSE),
                      Close(1)>>],
         \* with\s+a\s+medical\s+history\s+of\s+([^.]+)
         [source |-> <<"w","i","t","h","\\","s","+","a","\\","s","+","m","e","d","i","c","a","l","\\","s","+","h","i","s","t","o","r","y","\\","s","+","o","f","\\","s","+","(","[","^",".","]","+",")">>,
          groups |-> 1,
          nodes |-> <<Lit(<<"w","i","t","h">>),
                      Rep(space_chars, FALSE, 1, -1, FALSE),
                      Lit(<<"a">>),
                      Rep(space_chars, FALSE, 1, -1, FALSE),
                      Lit(<<"m","e","d","i","c","a","l">>),
                      Rep(space_chars, FALSE, 1, -1, FALSE),
                      Lit(<<"h","i","s","t","o","r","y">>),
                      Rep(space_chars, FALSE, 1, -1, FALSE),
                      Lit(<<"o","f">>),
                      Rep(space_chars, FALSE, 1, -1, FALSE),
                      Open(1),
                      Rep({"."}, TRUE, 1, -1, FALSE),
                      Close(1)>>],
         \* history\s+of\s+([^.]+?)(?:,|\.|and)
         [source |-> <<"h","i","s","t","o","r","y","\\","s","+","o","f","\\","s","+","(","[","^",".","]","+","?",")","(","?",":",",","|","\\",".","|","a","n","d",")">>,
          groups |-> 1,
          nodes |-> <<Lit(<<"h","i","s","t","o","r","y">>),
                      Rep(space_chars, FALSE, 1, -1, FALSE),
                      Lit(<<"o","f">>),
                      Rep(space_chars, FALSE, 1, -1, FALSE),
                      Open(1),
                      Rep({"."}, TRUE, 1, -1, TRUE),
                      Close(1),
                      Alt(<<<<Lit(<<",">>)>>, <<Lit(<<".">>)>>, <<Lit(<<"a","n","d">>)>>>>)>>],
         \* (\w+\s+\w+\s+\w+)\s+(cancer|carcinoma|disease|failure|apnea|amyloidosis)
         [source |-> <<"(","\\","w","+","\\","s","+","\\","w","+","\\","s","+","\\","w","+",")","\\","s","+","(","c","a","n","c","e","r","|","c","a","r","c","i","n","o","m","a","|","d","i","s","e","a","s","e","|","f","a","i","l","u","r","e","|","a","p","n","e","a","|","a","m","y","l","o","i","d","o","s","i","s",")">>,
          groups |-> 2,
          nodes |-> <<Open(1),
                      Rep(word_chars, FALSE, 1, -1, FALSE),
                      Rep(space_chars, FALSE, 1, -1, FALSE),
                      Rep(word_chars, FALSE, 1, -1, FALSE),
                      Rep(space_chars, FALSE, 1, -1, FALSE),
                      Rep(word_chars, FALSE, 1, -1, FALSE),
                      Close(1),
                      Rep(space_chars, FALSE, 1, -1, FALSE),
                      Open(2),
                      Alt(<<<<Lit(<<"c","a","n","c","e","r">>)>>, <<Lit(<<"c","a","r","c","i","n","o","m","a">>)>>, <<Lit(<<"d","i","s","e","a","s","e">>)>>, <<Lit(<<"f","a","i","l","u","r","e">>)>>, <<Lit(<<"a","p","n","e","a">>)>>, <<Lit(<<"a","m","y","l","o","i","d","o","s","i","s">>)>>>>),
                      Close(2)>>],
         \* (obstructive\s+sleep\s+apnea|obstructive\s+sleep\s+apnoea)
         [source |-> <<"(","o","b","s","t","r","u","c","t","i","v","e","\\","s","+","s","l","e","e","p","\\","s","+","a","p","n","e","a","|","o","b","s","t","r","u","c","t","i","v","e","\\","s","+","s","l","e","e","p","\\","s","+","a","p","n","o","e","a",")">>,
          groups |-> 1,
          nodes |-> <<Open(1),
                      Lit(<<"o","b","s","t","r","u","c","t","i","v","e">>),
                      Alt(<<<<Rep(space_chars, FALSE, 1, -1, FALSE), Lit(<<"s","l","e","e","p">>), Rep(space_chars, FALSE, 1, -1, FALSE), Lit(<<"a","p","n","e","a">>)>>, <<Rep(space_chars, FALSE, 1, -1, FALSE), Lit(<<"s","l","e","e","p">>), Rep(space_chars, FALSE, 1, -1, FALSE), Lit(<<"a","p","n","o","e","a">>)>>>>),
                      Close(1)>>],
         \* (heart\s+failure)
         [source |-> <<"(","h","e","a","r","t","\\","s","+","f","a","i","l","u","r","e",")">>,
          groups |-> 1,
          nodes |-> <<Open(1),
                      Lit(<<"h","e","a","r","t">>),
                      Rep(space_chars, FALSE, 1, -1, FALSE),
                      Lit(<<"f","a","i","l","u","r","e">>),
                      Close(1)>>],
         \* (coronary\s+artery\s+disease)
         [source |-> <<"(","c","o","r","o","n","a","r","y","\\","s","+","a","r","t","e","r","y","\\","s","+","d","i","s","e","a","s","e",")">>,
          groups |-> 1,
          nodes |-> <<Open(1),
                      Lit(<<"c","o","r","o","n","a","r","y">>),
                      Rep(space_chars, FALSE, 1, -1, FALSE),
                      Lit(<<"a","r","t","e","r","y">>),
                      Rep(space_chars, FALSE, 1, -1, FALSE),
                      Lit(<<"d","i","s","e","a","s","e">>),
                      Close(1)>>],
         \* (diabetes\s+mellitus)
         [source |-> <<"(","d","i","a","b","e","t","e","s","\\","s","+","m","e","l","l","i","t","u","s",")">>,
          groups |-> 1,
          nodes |-> <<Open(1),
                      Lit(<<"d","i","a","b","e","t","e","s">>),
                      Rep(space_chars, FALSE, 1, -1, FALSE),
                      Lit(<<"m","e","l","l","i","t","u","s">>),
                      Close(1)>>],
         \* (hypertension)
         [source |-> <<"(","h","y","p","e","r","t","e","n","s","i","o","n",")">>,
          groups |-> 1,
          nodes |-> <<Open(1),
                      Lit(<<"h","y","p","e","r","t","e","n","s","i","o","n">>),
                      Close(1)>>],
         \* (atrial\s+fibrillation)
         [source |-> <<"(","a","t","r","i","a","l","\\","s","+","f","i","b","r","i","l","l","a","t","i","o","n",")">>,
          groups |-> 1,
          nodes |-> <<Open(1),
                      Lit(<<"a","t","r","i","a","l">>),
                      Rep(space_chars, FALSE, 1, -1, FALSE),
                      Lit(<<"f","i","b","r","i","l","l","a","t","i","o","n">>),
                      Close(1)>>] >>
       [] category = "medications" -> <<
         \* (\w+)\s+(\d+)\s*(mg|mcg|ml|units?)\s*(IV|PO|IM|SC)
         [source |-> <<"(","\\","w","+",")","\\","s","+","(","\\","d","+",")","\\","s","*","(","m","g","|","m","c","g","|","m","l","|","u","n","i","t","s","?",")","\\","s","*","(","I","V","|","P","O","|","I","M","|","S","C",")">>,
          groups |-> 4,
          nodes |-> <<Open(1),
                      Rep(word_chars, FALSE, 1, -1, FALSE),
                      Close(1),
                      Rep(space_chars, FALSE, 1, -1, FALSE),
                      Open(2),
                      Rep(digit_chars, FALSE, 1, -1, FALSE),
                      Close(2),
                      Rep(space_chars, FALSE, 0, -1, FALSE),
                      Open(3),
                      Alt(<<<<Lit(<<"m","g">>)>>, <<Lit(<<"m","c","g">>)>>, <<Lit(<<"m","l">>)>>, <<Lit(<<"u","n","i","t">>), Rep({"s"}, FALSE, 0, 1, FALSE)>>>>),
                      Close(3),
                      Rep(space_chars, FALSE, 0, -1, FALSE),
                      Open(4),
                      Alt(<<<<Lit(<<"i","v">>)>>, <<Lit(<<"p","o">>)>>, <<Lit(<<"i","m">>)>>, <<Lit(<<"s","c">>)>>>>),
                      Close(4)>>],
         \* (\w+)\s+(\d+)\s*(mg|mcg|ml|units?)
         [source |-> <<"(","\\","w","+",")","\\","s","+","(","\\","d","+",")","\\","s","*","(","m","g","|","m","c","g","|","m","l","|","u","n","i","t","s","?",")">>,
          groups |-> 3,
          nodes |-> <<Open(1),
                      Rep(word_chars, FALSE, 1, -1, FALSE),
                      Close(1),
                      Rep(space_chars, FALSE, 1, -1, FALSE),
                      Open(2),
                      Rep(digit_chars, FALSE, 1, -1, FALSE),
                      Close(2),
                      Rep(space_chars, FALSE, 0, -1, FALSE),
                      Open(3),
                      Alt(<<<<Lit(<<"m","g">>)>>, <<Lit(<<"m","c","g">>)>>, <<Lit(<<"m","l">>)>>, <<Lit(<<"u","n","i","t">>), Rep({"s"}, FALSE, 0, 1, FALSE)>>>>),
                      Close(3)>>],
         \* (\w+)\s+(drip|infusion|injection)
         [source |-> <<"(","\\","w","+",")","\\","s","+","(","d","r","i","p","|","i","n","f","u","s","i","o","n","|","i","n","j","e","c","t","i","o","n",")">>,
          groups |-> 2,
          nodes |-> <<Open(1),
                      Rep(word_chars, FALSE, 1, -1, FALSE),
                      Close(1),
                      Rep(space_chars, FALSE, 1, -1, FALSE),
                      Open(2),
                      Alt(<<<<Lit(<<"d","r","i","p">>)>>, <<Lit(<<"i","n","f","u","s","i","o","n">>)>>, <<Lit(<<"i","n","j","e","c","t","i","o","n">>)>>>>),
                      Close(2)>>],
         \* (\w+)\s+(\d+)\s*(mg|mcg|ml|units?)/\s*(kg|min|hour)
         [source |-> <<"(","\\","w","+",")","\\","s","+","(","\\","d","+",")","\\","s","*","(","m","g","|","m","c","g","|","m","l","|","u","n","i","t","s","?",")","/","\\","s","*","(","k","g","|","m","i","n","|","h","o","u","r",")">>,
          groups |-> 4,
          nodes |-> <<Open(1),
                      Rep(word_chars, FALSE, 1, -1, FALSE),
                      Close(1),
                      Rep(space_chars, FALSE, 1, -1, FALSE),
                      Open(2),
                      Rep(digit_chars, FALSE, 1, -1, FALSE),
                      Close(2),
                      Rep(space_chars, FALSE, 0, -1, FALSE),
                      Open(3),
                      Alt(<<<<Lit(<<"m","g">>)>>, <<Lit(<<"m","c","g">>)>>, <<Lit(<<"m","l">>)>>, <<Lit(<<"u","n","i","t">>), Rep({"s"}, FALSE, 0, 1, FALSE)>>>>),
                      Close(3),
                      Lit(<<"/">>),
                      Rep(space_chars, FALSE, 0, -1, FALSE),
                      Open(4),
                      Alt(<<<<Lit(<<"k","g">>)>>, <<Lit(<<"m","i","n">>)>>, <<Lit(<<"h","o","u","r">>)>>>>),
                      Close(4)>>],
         \* (propofol|remifentanil|rivaroxaban|naproxen|vasopressor)\s+(drip|infusion|injection|mg|mcg)
         [source |-> <<"(","p","r","o","p","o","f","o","l","|","r","e","m","i","f","e","n","t","a","n","i","l","|","r","i","v","a","r","o","x","a","b","a","n","|","n","a","p","r","o","x","e","n","|","v","a","s","o","p","r","e","s","s","o","r",")","\\","s","+","(","d","r","i","p","|","i","n","f","u","s","i","o","n","|","i","n","j","e","c","t","i","o","n","|","m","g","|","m","c","g",")">>,
          groups |-> 2,
          nodes |-> <<Open(1),
                      Alt(<<<<Lit(<<"p","r","o","p","o","f","o","l">>)>>, <<Lit(<<"r","e","m","i","f","e","n","t","a","n","i","l">>)>>, <<Lit(<<"r","i","v","a","r","o","x","a","b","a","n">>)>>, <<Lit(<<"n","a","p","r","o","x","e","n">>)>>, <<Lit(<<"v","a","s","o","p","r","e","s","s","o","r">>)>>>>),
                      Close(1),
                      Rep(space_chars, FALSE, 1, -1, FALSE),
                      Open(2),
                      Alt(<<<<Lit(<<"d","r","i","p">>)>>, <<Lit(<<"i","n","f","u","s","i","o","n">>)>>, <<Lit(<<"i","n","j","e","c","t","i","o","n">>)>>, <<Lit(<<"m","g">>)>>, <<Lit(<<"m","c","g">>)>>>>),
                      Close(2)>>],
         \* (\w+)\s+(\d+)\s*(mg|mcg|ml|units?)
         [source |-> <<"(","\\","w","+",")","\\","s","+","(","\\","d","+",")","\\","s","*","(","m","g","|","m","c","g","|","m","l","|","u","n","i","t","s","?",")">>,
          groups |-> 3,
          nodes |-> <<Open(1),
                      Rep(word_chars, FALSE, 1, -1, FALSE),
                      Close(1),
                      Rep(space_chars, FALSE, 1, -1, FALSE),
                      Open(2),
                      Rep(digit_chars, FALSE, 1, -1, FALSE),
                      Close(2),
                      Rep(space_chars, FALSE, 0, -1, FALSE),
                      Open(3),
                      Alt(<<<<Lit(<<"m","g">>)>>, <<Lit(<<"m","c","g">>)>>, <<Lit(<<"m","l">>)>>, <<Lit(<<"u","n","i","t">>), Rep({"s"}, FALSE, 0, 1, FALSE)>>>>),
                      Close(3)>>],
         \* (\w+)\s+(drip)
         [source |-> <<"(","\\","w","+",")","\\","s","+","(","d","r","i","p",")">>,
          groups |-> 2,
          nodes |-> <<Open(1),
                      Rep(word_chars, FALSE, 1, -1, FALSE),
                      Close(1),
                      Rep(space_chars, FALSE, 1, -1, FALSE),
                      Open(2),
                      Lit(<<"d","r","i","p">>),
                      Close(2)>>] >>
       [] category = "procedures" -> <<
         \* (surgery|operation|procedure|intervention)[:\s]+([^.]+)
         [source |-> <<"(","s","u","r","g","e","r","y","|","o","p","e","r","a","t","i","o","n","|","p","r","o","c","e","d","u","r","e","|","i","n","t","e","r","v","e","n","t","i","o","n",")","[",":","\\","s","]","+","(","[","^",".","]","+",")">>,
          groups |-> 2,
          nodes |-> <<Open(1),
                      Alt(<<<<Lit(<<"s","u","r","g","e","r","y">>)>>, <<Lit(<<"o","p","e","r","a","t","i","o","n">>)>>, <<Lit(<<"p","r","o","c","e","d","u","r","e">>)>>, <<Lit(<<"i","n","t","e","r","v","e","n","t","i","o","n">>)>>>>),
                      Close(1),
                      Rep({":"} \cup space_chars, FALSE, 1, -1, FALSE),
                      Open(2),
                      Rep({"."}, TRUE, 1, -1, FALSE),
                      Close(2)>>],
         \* performed\s+([^.]+)
         [source |-> <<"p","e","r","f","o","r","m","e","d","\\","s","+","(","[","^",".","]","+",")">>,
          groups |-> 1,
          nodes |-> <<Lit(<<"p","e","r","f","o","r","m","e","d">>),
                      Rep(space_chars, FALSE, 1, -1, FALSE),
                      Open(1),
                      Rep({"."}, TRUE, 1, -1, FALSE),
                      Close(1)>>],
         \* underwent\s+([^.]+)
         [source |-> <<"u","n","d","e","r","w","e","n","t","\\","s","+","(","[","^",".","]","+",")">>,
          groups |-> 1,
          nodes |-> <<Lit(<<"u","n","d","e","r","w","e","n","t">>),
                      Rep(space_chars, FALSE, 1, -1, FALSE),
                      Open(1),
                      Rep({"."}, TRUE, 1, -1, FALSE),
                      Close(1)>>],
         \* placed\s+([^.]+)
         [source |-> <<"p","l","a","c","e","d","\\","s","+","(","[","^",".","]","+",")">>,
          groups |-> 1,
          nodes |-> <<Lit(<<"p","l","a","c","e","d">>),
                      Rep(space_chars, FALSE, 1, -1, FALSE),
                      Open(1),
                      Rep({"."}, TRUE, 1, -1, FALSE),
                      Close(1)>>] >>
       [] category = "complications" -> <<
         \* complication[:\s]+([^.]+)
         [source |-> <<"c","o","m","p","l","i","c","a","t","i","o","n","[",":","\\","s","]","+","(","[","^",".","]","+",")">>,
          groups |-> 1,
          nodes |-> <<Lit(<<"c","o","m","p","l","i","c","a","t","i","o","n">>),
                      Rep({":"} \cup space_chars, FALSE, 1, -1, FALSE),
                      Open(1),
                      Rep({"."}, TRUE, 1, -1, FALSE),
                      Close(1)>>],
         \* developed\s+([^.]+)
         [source |-> <<"d","e","v","e","l","o","p","e","d","\\","s","+","(","[","^",".","]","+",")">>,
          groups |-> 1,
          nodes |-> <<Lit(<<"d","e","v","e","l","o","p","e","d">>),
                      Rep(space_chars, FALSE, 1, -1, FALSE),
                      Open(1),
                      Rep({"."}, TRUE, 1, -1, FALSE),
                      Close(1)>>],
         \* experienced\s+([^.]+)
         [source |-> <<"e","x","p","e","r","i","e","n","c","e","d","\\","s","+","(","[","^",".","]","+",")">>,
          groups |-> 1,
          nodes |-> <<Lit(<<"e","x","p","e","r","i","e","n","c","e","d">>),
                      Rep(space_chars, FALSE, 1, -1, FALSE),
                      Open(1),
                      Rep({"."}, TRUE, 1, -1, FALSE),
                      Close(1)>>],
         \* occurred[:\s]+([^.]+)
         [source |-> <<"o","c","c","u","r","r","e","d","[",":","\\","s","]","+","(","[","^",".","]","+",")">>,
          groups |-> 1,
          nodes |-> <<Lit(<<"o","c","c","u","r","r","e","d">>),
                      Rep({":"} \cup space_chars, FALSE, 1, -1, FALSE),
                      Open(1),
                      Rep({"."}, TRUE, 1, -1, FALSE),
                      Close(1)>>] >>
       [] category = "outcomes" -> <<
         \* outcome[:\s]+([^.]+)
         [source |-> <<"o","u","t","c","o","m","e","[",":","\\","s","]","+","(","[","^",".","]","+",")">>,
          groups |-> 1,
          nodes |-> <<Lit(<<"o","u","t","c","o","m","e">>),
                      Rep({":"} \cup space_chars, FALSE, 1, -1, FALSE),
                      Open(1),
                      Rep({"."}, TRUE, 1, -1, FALSE),
                      Close(1)>>],
         \* result[:\s]+([^.]+)
         [source |-> <<"r","e","s","u","l","t","[",":","\\","s","]","+","(","[","^",".","]","+",")">>,
          groups |-> 1,
          nodes |-> <<Lit(<<"r","e","s","u","l","t">>),
                      Rep({":"} \cup space_chars, FALSE, 1, -1, FALSE),
                      Open(1),
                      Rep({"."}, TRUE, 1, -1, FALSE),
                      Close(1)>>],
         \* discharged\s+([^.]+)
         [source |-> <<"d","i","s","c","h","a","r","g","e","d","\\","s","+","(","[","^",".","]","+",")">>,
          groups |-> 1,
          nodes |-> <<Lit(<<"d","i","s","c","h","a","r","g","e","d">>),
                      Rep(space_chars, FALSE, 1, -1, FALSE),
                      Open(1),
                      Rep({"."}, TRUE, 1, -1, FALSE),
                      Close(1)>>],
         \* died|survived|recovered
         [source |-> <<"d","i","e","d","|","s","u","r","v","i","v","e","d","|","r","e","c","o","v","e","r","e","d">>,
          groups |-> 0,
          nodes |-> <<Alt(<<<<Lit(<<"d","i","e","d">>)>>, <<Lit(<<"s","u","r","v","i","v","e","d">>)>>, <<Lit(<<"r","e","c","o","v","e","r","e","d">>)>>>>)>>] >>]

\* The result of a failed match attempt.
NoMatch == [ok |-> FALSE, end |-> 0, caps |-> <<>>]

in_class(c, n) ==
  LET l == IF c \in DOMAIN upper_to_lower THEN upper_to_lower[c] ELSE c
  IN  (l \in n.cls) # n.neg

\* Number of consecutive characters from pos on that the class of n accepts,
\* counted up to n.max.
RECURSIVE run_length(_, _, _, _)
run_length(n, text, pos, count) ==
  IF /\ pos + count <= Len(text)
     /\ (n.max < 0 \/ count < n.max)
     /\ in_class(text[pos + count], n)
  THEN run_length(n, text, pos, count + 1)
  ELSE count

lit_at(s, text, pos) ==
  /\ pos + Len(s) - 1 <= Len(text)
  /\ lower(SubSeq(text, pos, pos + Len(s) - 1)) = s

\* Backtracking match of a node sequence at position pos, as the re module
\* matches: alternatives in order, greedy repeats longest first, lazy repeats
\* shortest first. caps[g] = <<start, end>> of group g (end exclusive).
RECURSIVE match_here(_, _, _, _)
RECURSIVE try_counts(_, _, _, _, _, _, _)
RECURSIVE try_alts(_, _, _, _, _)
match_here(nodes, text, pos, caps) ==
  IF Len(nodes) = 0
  THEN [ok |-> TRUE, end |-> pos, caps |-> caps]
  ELSE LET n == Head(nodes)
           rest == Tail(nodes)
       IN  CASE n.k = "lit" ->
                  IF lit_at(n.s, text, pos)
                  THEN match_here(rest, text, pos + Len(n.s), caps)
                  ELSE NoMatch
             [] n.k = "open" ->
                  match_here(rest, text, pos, [caps EXCEPT ![n.g] = <<pos, pos>>])
             [] n.k = "close" ->
                  match_here(rest, text, pos, [caps EXCEPT ![n.g] = <<caps[n.g][1], pos>>])
             [] n.k = "rep" ->
                  LET most == run_length(n, text, pos, 0)
                  IN  IF most < n.min THEN NoMatch
                      ELSE IF n.lazy
                      THEN try_counts(n.min, 1, most, rest, text, pos, caps)
                      ELSE try_counts(most, -1, n.min, rest, text, pos, caps)
             [] n.k = "alt" ->
                  try_alts(n.alts, rest, text, pos, caps)

try_counts(count, step, last, rest, text, pos, caps) ==
  LET r == match_here(rest, text, pos + count, caps)
  IN  IF r.ok THEN r
      ELSE IF count = last THEN NoMatch
      ELSE try_counts(count + step, step, last, rest, text, pos, caps)

try_alts(alts, rest, text, pos, caps) ==
  IF Len(alts) = 0 THEN NoMatch
  ELSE LET r == match_here(Head(alts) \o rest, text, pos, caps)
       IN  IF r.ok THEN r ELSE try_alts(Tail(alts), rest, text, pos, caps)

\* Python values an extraction list can hold: a str, or a tuple of str.
\* Both carry their text in `parts`, a sequence of character tuples.
str(s) == [type |-> "str", parts |-> <<s>>]

tuple(parts) == [type |-> "tuple", parts |-> parts]

\* Faulty variant: a pattern with several groups yields the first group only.
match_value_first_group(p, text, start, r) ==
  IF p.groups = 0
  THEN str(SubSeq(text, start, r.end - 1))
  ELSE str(SubSeq(text, r.caps[1][1], r.caps[1][2] - 1))

\* What re.findall reports for one match: the whole match when the pattern
\* has no group, the group's text when it has one, and a tuple of the
\* groups' texts when it has several.
match_value(p, text, start, r) ==
  IF p.groups = 0
  THEN str(SubSeq(text, start, r.end - 1))
  ELSE IF p.groups = 1
  THEN str(SubSeq(text, r.caps[1][1], r.caps[1][2] - 1))
  ELSE tuple([g \in 1..p.groups |-> SubSeq(text, r.caps[g][1], r.caps[g][2] - 1)])

\* re.findall(pattern, content, re.IGNORECASE): leftmost non-overlapping
\* matches, scanning from the end of the previous match. No pattern of the
\* table can match the empty string.
RECURSIVE findall_from(_, _, _)
findall_from(p, text, pos) ==
  IF pos > Len(text)
  THEN <<>>
  ELSE LET r == match_here(p.nodes, text, pos, [g \in 1..p.groups |-> <<pos, pos>>])
       IN  IF r.ok
           THEN <<match_value(p, text, pos, r)>> \o
                findall_from(p, text, IF r.end > pos THEN r.end ELSE pos + 1)
           ELSE findall_from(p, text, pos + 1)

findall(p, text) == findall_from(p, text, 1)

categories ==
  {"age", "sex", "diagnosis", "medications", "procedures", "complications", "outcomes"}

\* findall of every pattern of every category on every document text:
\* pattern_matches[category, content][i] is the match list of pattern i.
pattern_matches ==
  [category \in categories, content \in ExtractContents \cup Contents |->
     [i \in 1..Len(extraction_patterns[category]) |->
        findall(extraction_patterns[category][i], chars[content])]]

\* " ".join(parts) and the like.
RECURSIVE join(_, _)
join(sep, parts) ==
  IF Len(parts) = 0 THEN <<>>
  ELSE IF Len(parts) = 1 THEN parts[1]
  ELSE parts[1] \o sep \o join(sep, Tail(parts))

RECURSIVE lstrip(_)
lstrip(s) ==
  IF Len(s) > 0 /\ s[1] \in whitespace THEN lstrip(Tail(s)) ELSE s

RECURSIVE rstrip(_)
rstrip(s) ==
  IF Len(s) > 0 /\ s[Len(s)] \in whitespace
  THEN rstrip(SubSeq(s, 1, Len(s) - 1))
  ELSE s

\* str.strip()
strip(s) == rstrip(lstrip(s))

RECURSIVE concat(_)
concat(lists) ==
  IF Len(lists) = 0 THEN <<>> ELSE Head(lists) \o concat(Tail(lists))

sex_terms ==
  <<<<"m","a","l","e">>, <<"f","e","m","a","l","e">>, <<"m","a","n">>, <<"w","o","m","a","n">>>>

in_his == <<"i","n"," ","h","i","s">>

in_her == <<"i","n"," ","h","e","r">>

year_old == <<"-","y","e","a","r","-","o","l","d"," ">>

\* Faulty variant: the age and the sex of a tuple match are joined by a space.
age_entries_joined(pattern, match) ==
  IF match.type = "tuple" THEN <<str(join(<<" ">>, match.parts))>> ELSE <<match>>

\* What _extract_ages appends for one match of one pattern.
age_entries(pattern, match) ==
  IF match.type = "tuple"
  THEN IF contains(in_his, pattern.source) \/ contains(in_her, pattern.source)
       THEN <<str(match.parts[1] \o <<"s">>)>>
       ELSE IF /\ Len(match.parts) >= 2
               /\ any_term_in(sex_terms, lower(match.parts[2]))
       THEN <<str(match.parts[1] \o year_old \o match.parts[2])>>
       ELSE <<str(join(<<" ">>, match.parts))>>
  ELSE <<match>>

\* What _extract_sex appends for one match: sexes.extend(matches) takes every
\* element of findall's list as it is.
sex_entries(pattern, match) == <<match>>

\* What _extract_diagnoses appends for one match.
diagnosis_entries(pattern, match) ==
  IF match.type = "tuple"
  THEN IF Len(match.parts) >= 2
       THEN <<str(match.parts[1] \o <<" ">> \o match.parts[2])>>
       ELSE <<str(match.parts[1])>>
  ELSE <<str(strip(match.parts[1]))>>

\* Faulty variant: the unit (third group) is left out.
medication_entries_no_unit(pattern, match) ==
  IF match.type = "tuple"
  THEN IF Len(match.parts) >= 2
       THEN <<str(strip(match.parts[1] \o <<" ">> \o match.parts[2]))>>
       ELSE <<>>
  ELSE <<str(strip(match.parts[1]))>>

\* What _extract_medications appends for one match.
medication_entries(pattern, match) ==
  IF match.type = "tuple"
  THEN IF Len(match.parts) >= 2
       THEN LET med_info == match.parts[1] \o <<" ">> \o match.parts[2]
            IN  IF Len(match.parts) > 2 /\ match.parts[3] # <<>>
                THEN <<str(strip(med_info \o <<" ">> \o match.parts[3]))>>
                ELSE <<str(strip(med_info))>>
       ELSE <<>>
  ELSE <<str(strip(match.parts[1]))>>

\* What _extract_procedures appends for one match: every non-empty group of a
\* tuple, stripped, or the stripped match.
procedure_entries(pattern, match) ==
  IF match.type = "tuple"
  THEN LET kept == SelectSeq(match.parts, LAMBDA m : m # <<>>)
       IN  [i \in 1..Len(kept) |-> str(strip(kept[i]))]
  ELSE <<str(strip(match.parts[1]))>>

\* What _extract_complications and _extract_outcomes append for one match:
\* match.strip(). Their patterns have at most one group, so every match is a
\* str.
stripped_entries(pattern, match) == <<str(strip(match.parts[1]))>>

entries(category, pattern, match) ==
  CASE category = "age" -> age_entries(pattern, match)
    [] category = "sex" -> sex_entries(pattern, match)
    [] category = "diagnosis" -> diagnosis_entries(pattern, match)
    [] category = "medications" -> medication_entries(pattern, match)
    [] category = "procedures" -> procedure_entries(pattern, match)
    [] category = "complications" -> stripped_entries(pattern, match)
    [] category = "outcomes" -> stripped_entries(pattern, match)

\* The entries one pattern contributes for one document text.
pattern_entries(category, content, i) ==
  LET matches == pattern_matches[category, content][i]
  IN  concat([j \in 1..Len(matches) |->
                entries(category, extraction_patterns[category][i], matches[j])])

\* The entries one document text contributes: the inner loop over the
\* category's patterns.
content_entries ==
  [category \in categories, content \in ExtractContents \cup Contents |->
     concat([i \in 1..Len(extraction_patterns[category]) |->
               pattern_entries(category, content, i)])]

\* The list built by the loop over the documents, before list(set(...)).
appended(category, documents) ==
  concat([d \in 1..Len(documents) |-> content_entries[category, documents[d].content]])

\* All orderings of a finite set.
RECURSIVE orderings(_)
orderings(S) ==
  IF S = {} THEN {<<>>}
  ELSE UNION {{<<x>> \o rest : rest \in orderings(S \ {x})} : x \in S}

\* Faulty variant: the list is returned as built, duplicates included.
list_set_keep_duplicates(xs) ==
  {xs}

\* list(set(xs)): the distinct elements of xs in an order that the hash
\* seed of the process decides; every ordering is a possible result.
list_set(xs) ==
  orderings({xs[i] : i \in DOMAIN xs})

\* The possible results of _extract_ages, _extract_sex, ... for a category.
extract(category, documents) == list_set(appended(category, documents))

\* The key of extracted_info a category is stored under.
info_keys ==
  [category \in categories |->
     CASE category = "age" -> "ages"
       [] category = "sex" -> "sex"
       [] category = "diagnosis" -> "diagnoses"
       [] category = "medications" -> "medications"
       [] category = "procedures" -> "procedures"
       [] category = "complications" -> "complications"
       [] category = "outcomes" -> "outcomes"]

\* The query terms that select each category, in the order of the if
\* statements of extract_specific_info.
trigger_terms ==
  <<[category |-> "age", terms |-> <<<<"a","g","e">>, <<"o","l","d">>, <<"y","e","a","r">>>>],
    [category |-> "sex", terms |-> <<<<"s","e","x">>, <<"g","e","n","d","e","r">>,
                                    <<"m","a","l","e">>, <<"f","e","m","a","l","e">>>>],
    [category |-> "diagnosis", terms |-> <<<<"d","i","a","g","n","o","s","i","s">>,
                                          <<"d","i","a","g","n","o","s","e","s">>,
                                          <<"c","o","n","d","i","t","i","o","n">>,
                                          <<"d","i","s","e","a","s","e">>,
                                          <<"d","i","s","e","a","s","e","s">>>>],
    [category |-> "medications", terms |-> <<<<"m","e","d","i","c","a","t","i","o","n">>,
                                            <<"d","r","u","g">>,
                                            <<"m","e","d","i","c","i","n","e">>>>],
    [category |-> "procedures", terms |-> <<<<"p","r","o","c","e","d","u","r","e">>,
                                           <<"s","u","r","g","e","r","y">>,
                                           <<"o","p","e","r","a","t","i","o","n">>>>],
    [category |-> "complications", terms |-> <<<<"c","o","m","p","l","i","c","a","t","i","o","n">>,
                                              <<"p","r","o","b","l","e","m">>,
                                              <<"i","s","s","u","e">>>>],
    [category |-> "outcomes", terms |-> <<<<"o","u","t","c","o","m","e">>,
                                         <<"r","e","s","u","l","t">>,
                                         <<"d","i","s","c","h","a","r","g","e">>>>]>>

\* The categories whose if statement fires for a query, in statement order.
triggered(query) ==
  LET hits == SelectSeq(trigger_terms, LAMBDA rule : any_term_in(rule.terms, lower(chars[query])))
  IN  [i \in 1..Len(hits) |-> hits[i].category]

Min(a, b) == IF a < b THEN a ELSE b

\* ----------------------------------------------------------- keyword_search
\* The keys of self.keyword_categories, in dict order.
category_order ==
  <<"demographics", "diagnoses", "medications", "procedures", "complications", "outcomes", "vital_signs", "lab_values">>

category_names == {category_order[i] : i \in DOMAIN category_order}

\* self.keyword_categories
keyword_categories ==
  [category \in category_names |->
     CASE category = "demographics" ->
            <<"age", "old", "year", "male", "female", "man", "woman", "sex", "gender">>
       [] category = "diagnoses" ->
            <<"diagnosis", "condition", "disease", "cancer", "carcinoma", "failure", "apnea", "amyloidosis", "diabetes", "hypertension", "fibrillation", "obstructive", "sleep", "heart", "coronary", "atrial", "cardiac">>
       [] category = "medications" ->
            <<"medication", "drug", "medicine", "propofol", "remifentanil", "rivaroxaban", "naproxen", "vasopressor", "drip", "infusion", "injection", "mg", "mcg", "ml">>
       [] category = "procedures" ->
            <<"procedure", "surgery", "operation", "intervention", "performed", "underwent", "placed", "PCI", "ablation", "intubation", "catheter", "endotracheal">>
       [] category = "complications" ->
            <<"complication", "problem", "issue", "hypotension", "fibrillation", "pressure", "drop", "tachycardic", "bradycardic", "arrhythmia">>
       [] category = "outcomes" ->
            <<"outcome", "result", "discharge", "died", "survived", "recovered", "improved", "transferred", "ICU", "SICU", "ward">>
       [] category = "vital_signs" ->
            <<"blood pressure", "heart rate", "HR", "BP", "ABP", "bpm", "mm Hg", "oxygen", "saturation", "temperature", "pulse", "respiratory rate">>
       [] category = "lab_values" ->
            <<"lab", "laboratory", "blood", "test", "result", "value", "level", "count", "hemoglobin", "hematocrit", "glucose", "creatinine", "BUN">>]

\* \b of the re module at the gap in front of text[p]: exactly one of the
\* characters on its two sides is a word character.
word_at(text, p) ==
  /\ p \in 1..Len(text)
  /\ (IF text[p] \in DOMAIN upper_to_lower THEN upper_to_lower[text[p]] ELSE text[p])
       \in word_chars

boundary_at(text, p) == word_at(text, p - 1) # word_at(text, p)

\* The start positions of the matches re.findall reports for the escaped
\* keyword (a literal), between word boundaries when exact_match is set:
\* leftmost first, each search starting where the previous match ended.
\* Keywords are not empty.
RECURSIVE match_starts(_, _, _, _)
match_starts(keyword, content, pos, exact_match) ==
  IF pos + Len(keyword) - 1 > Len(content)
  THEN <<>>
  ELSE IF /\ SubSeq(content, pos, pos + Len(keyword) - 1) = keyword
          /\ exact_match =>
               (boundary_at(content, pos) /\ boundary_at(content, pos + Len(keyword)))
  THEN <<pos>> \o match_starts(keyword, content, pos + Len(keyword), exact_match)
  ELSE match_starts(keyword, content, pos + 1, exact_match)

\* _get_keyword_context: for the first three plain occurrences of the
\* keyword, the stripped text from 50 characters before it to 50 after it.
get_keyword_context(content, keyword) ==
  LET starts == match_starts(keyword, content, 1, FALSE)
  IN  [n \in 1..Min(3, Len(starts)) |->
         LET start == IF starts[n] - 1 - 50 > 0 THEN starts[n] - 1 - 50 ELSE 0
             end == Min(Len(content), starts[n] - 1 + Len(keyword) + 50)
         IN  strip(SubSeq(content, start + 1, end))]

\* The keyword as it is searched, and the content as it is searched.
search_form(s, case_sensitive) ==
  IF case_sensitive THEN chars[s] ELSE lower(chars[s])

\* doc.meta.get('case_name', 'Unknown Case')
case_name_of(doc) ==
  IF "case_name" \in DOMAIN doc.meta THEN doc.meta.case_name ELSE "Unknown Case"

\* The match list of one document: an entry for every keyword that matches,
\* in keyword order.
RECURSIVE doc_matches(_, _, _, _, _)
doc_matches(doc, keywords, i, case_sensitive, exact_match) ==
  IF i > Len(keywords)
  THEN <<>>
  ELSE LET content == search_form(doc.content, case_sensitive)
           keyword == search_form(keywords[i], case_sensitive)
           matches == match_starts(keyword, content, 1, exact_match)
           rest == doc_matches(doc, keywords, i + 1, case_sensitive, exact_match)
       IN  IF Len(matches) > 0
           THEN <<[keyword |-> keywords[i],
                   count |-> Len(matches),
                   context |-> get_keyword_context(content, keyword)]>> \o rest
           ELSE rest

\* if x not in list: list.append(x)
append_new(list, x) ==
  IF \E i \in DOMAIN list : list[i] = x THEN list ELSE Append(list, x)

\* keywords_found / keywords_not_found after the keyword loop of one
\* document: a keyword goes to the first list when it matches this document
\* and to the second when it does not.
RECURSIVE note_keywords(_, _, _, _, _, _)
note_keywords(results, doc, keywords, i, case_sensitive, exact_match) ==
  IF i > Len(keywords)
  THEN results
  ELSE LET matches == match_starts(search_form(keywords[i], case_sensitive),
                                   search_form(doc.content, case_sensitive), 1, exact_match)
           noted == IF Len(matches) > 0
                    THEN [results EXCEPT !.keywords_found = append_new(@, keywords[i])]
                    ELSE [results EXCEPT !.keywords_not_found = append_new(@, keywords[i])]
       IN  note_keywords(noted, doc, keywords, i + 1, case_sensitive, exact_match)

\* dict[key] = value on a dict kept as its list of items: an existing key
\* keeps its place and takes the new value.
dict_set(items, key, value) ==
  IF \E i \in DOMAIN items : items[i].key = key
  THEN [i \in DOMAIN items |-> IF items[i].key = key THEN [key |-> key, value |-> value] ELSE items[i]]
  ELSE Append(items, [key |-> key, value |-> value])

\* The loop over the documents from document d on.
RECURSIVE search_from(_, _, _, _, _, _)
search_from(results, documents_in, d, keywords, case_sensitive, exact_match) ==
  IF d > Len(documents_in)
  THEN results
  ELSE LET doc == documents_in[d]
           matches == doc_matches(doc, keywords, 1, case_sensitive, exact_match)
           match_count == IF Len(matches) = 0 THEN 0
                          ELSE LET RECURSIVE total(_)
                                   total(n) == IF n = 0 THEN 0 ELSE matches[n].count + total(n - 1)
                               IN  total(Len(matches))
           case_matches == [case_name |-> case_name_of(doc),
                            matches |-> matches,
                            match_count |-> match_count]
           noted == note_keywords(results, doc, keywords, 1, case_sensitive, exact_match)
           stored == IF Len(matches) > 0
                     THEN [noted EXCEPT
                             !.matches_by_case = dict_set(@, case_name_of(doc), case_matches),
                             !.total_matches = @ + match_count]
                     ELSE noted
       IN  search_from(stored, documents_in, d + 1, keywords, case_sensitive, exact_match)

\* What search_keywords(documents, keywords, case_sensitive, exact_match)
\* returns.
keyword_results(documents_in, keywords, case_sensitive, exact_match) ==
  search_from([keywords_found |-> <<>>,
               keywords_not_found |-> <<>>,
               matches_by_case |-> <<>>,
               total_matches |-> 0,
               case_reports_searched |-> Len(documents_in)],
              documents_in, 1, keywords, case_sensitive, exact_match)

\* Faulty variant: an unknown category is searched with no keywords.
category_results_silent(documents_in, category) ==
  IF category \notin category_names
  THEN keyword_results(documents_in, <<>>, FALSE, FALSE)
  ELSE keyword_results(documents_in, keyword_categories[category], FALSE, FALSE)

\* What search_by_category(documents, category) returns: for an unknown
\* category a dict with the one key 'error', whose message holds the
\* category and list(self.keyword_categories.keys()).
category_results(documents_in, category) ==
  IF category \notin category_names
  THEN [error |-> [text |-> "Category \"{category}\" not found. Available categories: {categories}",
                   category |-> category,
                   categories |-> category_order]]
  ELSE keyword_results(documents_in, keyword_categories[category], FALSE, FALSE)

\* ------------------------------------------------- mimic_patient_query_system
\* An Optional argument: None, or the value given.
None == <<>>

Some(value) == <<value>>

\* Python's truth test of an Optional list: None and [] are both false.
truthy(optional) == optional # None /\ Len(optional[1]) > 0

\* sum(xs)
RECURSIVE sum(_)
sum(xs) == IF Len(xs) = 0 THEN 0 ELSE Head(xs) + sum(Tail(xs))

\* The positions at or after i where sub starts in s.
starts_from(sub, s, i) ==
  {j \in i..(Len(s) - Len(sub) + 1) : SubSeq(s, j, j + Len(sub) - 1) = sub}

\* str.count(sub) for a non-empty sub: occurrences from the left that do not
\* overlap.
RECURSIVE count_from(_, _, _)
count_from(sub, s, i) ==
  LET starts == starts_from(sub, s, i)
  IN  IF starts = {} THEN 0
      ELSE LET first == CHOOSE j \in starts : \A k \in starts : j <= k
           IN  1 + count_from(sub, s, first + Len(sub))

count(sub, s) == count_from(sub, s, 1)

\* str.find(sub) for a sub that occurs in s: the 0-based first position.
find(sub, s) ==
  CHOOSE i \in 0..(Len(s) - Len(sub)) :
    /\ SubSeq(s, i + 1, i + Len(sub)) = sub
    /\ \A j \in 0..(i - 1) : SubSeq(s, j + 1, j + Len(sub)) # sub

\* any(word in text.lower() for word in query_words)
any_word_in(query_words, text) ==
  \E i \in DOMAIN query_words : contains(query_words[i], lower(chars[text]))

\* The largest max_results a caller passes.
MaxResults == 2

\* The ids of the patient files.
PatientIds == {"10001", "10002", "10003", "10004"}

\* The PatientInfo that load_all_patients builds for each file: content,
\* keywords, medical terms by category, and the metadata dict in key order
\* (a str value, a list of str, or None).
patient_files ==
  [id \in PatientIds |->
     CASE id = "10001" ->
         [content |-> "Sex: F\nService: MEDICINE\nChief Complaint: Chest pain\n\nChest pain on exertion, pain at rest.",
          keywords |-> <<"chest pain">>,
          medical_terms |-> [diagnoses |-> <<>>, procedures |-> <<>>, medications |-> <<>>, vitals |-> <<>>, lab_values |-> <<>>, symptoms |-> <<"chest pain">>],
          metadata |->
            <<[field |-> "patient_id", kind |-> "str", items |-> <<"10001">>],
              [field |-> "sex", kind |-> "str", items |-> <<"F">>],
              [field |-> "age", kind |-> "None", items |-> <<>>],
              [field |-> "admission_date", kind |-> "None", items |-> <<>>],
              [field |-> "discharge_date", kind |-> "None", items |-> <<>>],
              [field |-> "service", kind |-> "str", items |-> <<"MEDICINE">>],
              [field |-> "chief_complaint", kind |-> "str", items |-> <<"Chest pain">>],
              [field |-> "discharge_diagnosis", kind |-> "list", items |-> <<>>],
              [field |-> "allergies", kind |-> "list", items |-> <<>>],
              [field |-> "medications", kind |-> "list", items |-> <<>>],
              [field |-> "procedures", kind |-> "list", items |-> <<>>]>>]
       [] id = "10002" ->
         [content |-> "Sex: M\nService: SURGERY\n\nNo pain. Stent placed.",
          keywords |-> <<"stent", "surgery">>,
          medical_terms |-> [diagnoses |-> <<>>, procedures |-> <<"surgery", "stent">>, medications |-> <<>>, vitals |-> <<>>, lab_values |-> <<>>, symptoms |-> <<>>],
          metadata |->
            <<[field |-> "patient_id", kind |-> "str", items |-> <<"10002">>],
              [field |-> "sex", kind |-> "str", items |-> <<"M">>],
              [field |-> "age", kind |-> "None", items |-> <<>>],
              [field |-> "admission_date", kind |-> "None", items |-> <<>>],
              [field |-> "discharge_date", kind |-> "None", items |-> <<>>],
              [field |-> "service", kind |-> "str", items |-> <<"SURGERY">>],
              [field |-> "chief_complaint", kind |-> "None", items |-> <<>>],
              [field |-> "discharge_diagnosis", kind |-> "list", items |-> <<>>],
              [field |-> "allergies", kind |-> "list", items |-> <<>>],
              [field |-> "medications", kind |-> "list", items |-> <<>>],
              [field |-> "procedures", kind |-> "list", items |-> <<>>]>>]
       [] id = "10003" ->
         [content |-> "unrelated text",
          keywords |-> <<>>,
          medical_terms |-> [diagnoses |-> <<>>, procedures |-> <<>>, medications |-> <<>>, vitals |-> <<>>, lab_values |-> <<>>, symptoms |-> <<>>],
          metadata |->
            <<[field |-> "patient_id", kind |-> "str", items |-> <<"10003">>],
              [field |-> "sex", kind |-> "None", items |-> <<>>],
              [field |-> "age", kind |-> "None", items |-> <<>>],
              [field |-> "admission_date", kind |-> "None", items |-> <<>>],
              [field |-> "discharge_date", kind |-> "None", items |-> <<>>],
              [field |-> "service", kind |-> "None", items |-> <<>>],
              [field |-> "chief_complaint", kind |-> "None", items |-> <<>>],
              [field |-> "discharge_diagnosis", kind |-> "list", items |-> <<>>],
              [field |-> "allergies", kind |-> "list", items |-> <<>>],
              [field |-> "medications", kind |-> "list", items |-> <<>>],
              [field |-> "procedures", kind |-> "list", items |-> <<>>]>>]
       [] id = "10004" ->
         [content |-> "Service: MEDICINE\nAllergies: aspirin\n\nno painkillers",
          keywords |-> <<"aspirin", "k">>,
          medical_terms |-> [diagnoses |-> <<>>, procedures |-> <<>>, medications |-> <<"aspirin">>, vitals |-> <<>>, lab_values |-> <<"k">>, symptoms |-> <<>>],
          metadata |->
            <<[field |-> "patient_id", kind |-> "str", items |-> <<"10004">>],
              [field |-> "sex", kind |-> "None", items |-> <<>>],
              [field |-> "age", kind |-> "None", items |-> <<>>],
              [field |-> "admission_date", kind |-> "None", items |-> <<>>],
              [field |-> "discharge_date", kind |-> "None", items |-> <<>>],
              [field |-> "service", kind |-> "str", items |-> <<"MEDICINE">>],
              [field |-> "chief_complaint", kind |-> "None", items |-> <<>>],
              [field |-> "discharge_diagnosis", kind |-> "list", items |-> <<>>],
              [field |-> "allergies", kind |-> "list", items |-> <<"aspirin">>],
              [field |-> "medications", kind |-> "list", items |-> <<>>],
              [field |-> "procedures", kind |-> "list", items |-> <<>>]>>]]

\* self.indexer.patients after load_all_patients, as the patient ids in dict
\* order: the files found in the data directory.
patient_indexes ==
  {<<>>, <<"10003">>, <<"10001", "10002">>, <<"10002", "10001">>,
   <<"10004", "10003", "10001">>, <<"10001", "10002", "10003", "10004">>}

\* _calculate_relevance_score
calculate_relevance_score(query_lower, query_words, patient, categories_arg) ==
  LET content_lower == lower(chars[patient.content])
      phrase == IF contains(query_lower, content_lower) THEN 100 ELSE 0
      words == sum([i \in DOMAIN query_words |->
                      IF Len(query_words[i]) > 2
                      THEN count(query_words[i], content_lower) * 10
                      ELSE 0])
      terms == IF truthy(categories_arg)
               THEN sum([i \in DOMAIN categories_arg[1] |->
                           IF categories_arg[1][i] \in DOMAIN patient.medical_terms
                           THEN Len(patient.medical_terms[categories_arg[1][i]]) * 5
                           ELSE 0])
               ELSE 0
      keyword_score == sum([i \in DOMAIN patient.keywords |->
                         IF any_word_in(query_words, patient.keywords[i]) THEN 3 ELSE 0])
      value_score(entry) ==
        IF entry.kind = "str"
        THEN IF Len(chars[entry.items[1]]) > 0 /\ any_word_in(query_words, entry.items[1])
             THEN 5 ELSE 0
        ELSE IF entry.kind = "list"
             THEN sum([i \in DOMAIN entry.items |->
                         IF any_word_in(query_words, entry.items[i]) THEN 5 ELSE 0])
             ELSE 0
      metadata_score == sum([i \in DOMAIN patient.metadata |-> value_score(patient.metadata[i])])
  IN  phrase + words + terms + keyword_score + metadata_score

\* The first position at or after i that holds no newline.
skip_newlines(s, i) ==
  LET others == {j \in i..Len(s) : s[j] # "\n"}
  IN  IF others = {} THEN Len(s) + 1 ELSE CHOOSE j \in others : \A k \in others : j <= k

\* re.split(r'\n\n+', content), from position i on.
RECURSIVE split_sections(_, _)
split_sections(s, i) ==
  LET breaks == starts_from(<<"\n", "\n">>, s, i)
  IN  IF breaks = {} THEN <<SubSeq(s, i, Len(s))>>
      ELSE LET first == CHOOSE j \in breaks : \A k \in breaks : j <= k
           IN  <<SubSeq(s, i, first - 1)>> \o split_sections(s, skip_newlines(s, first))

\* _find_matched_sections
find_matched_sections(query_lower, content) ==
  LET sections == split_sections(content, 1)
      hits == SelectSeq(sections, LAMBDA section : contains(query_lower, lower(section)))
      cut(section) == IF Len(section) > 500
                      THEN SubSeq(section, 1, 500) \o <<".", ".", ".">>
                      ELSE section
  IN  [i \in 1..Min(3, Len(hits)) |-> strip(cut(hits[i]))]

\* _find_matched_keywords
find_matched_keywords(query_words, patient_keywords) ==
  LET matched == SelectSeq(patient_keywords, LAMBDA keyword : any_word_in(query_words, keyword))
  IN  SubSeq(matched, 1, Min(10, Len(matched)))

\* _extract_context
extract_context(query_lower, content) ==
  LET content_lower == lower(content)
  IN  IF ~contains(query_lower, content_lower) THEN <<>>
      ELSE LET start_pos == find(query_lower, content_lower)
               context_start == IF start_pos - 200 > 0 THEN start_pos - 200 ELSE 0
               context_end == Min(Len(content), start_pos + Len(query_lower) + 200)
           IN  strip(SubSeq(content, context_start + 1, context_end))

\* The SearchResult of one patient.
SearchResult(patient_id, relevance_score, query_lower, query_words) ==
  LET patient == patient_files[patient_id]
  IN  [patient_id |-> patient_id,
       relevance_score |-> relevance_score,
       matched_sections |-> find_matched_sections(query_lower, chars[patient.content]),
       matched_keywords |-> find_matched_keywords(query_words, patient.keywords),
       context |-> extract_context(query_lower, chars[patient.content]),
       metadata |-> patient.metadata]

\* The patients the loop of search_patients visits.
searched_patients(patients, patient_ids) ==
  IF truthy(patient_ids) THEN patient_ids[1] ELSE patients

\* Faulty variant: the results are cut to max_results before they are sorted.
search_results_cut_first(patients, query, patient_ids, categories_arg, max_results) ==
  LET query_lower == lower(chars[query])
      query_words == split(query_lower)
      indexed == {patients[i] : i \in DOMAIN patients}
      search_list == searched_patients(patients, patient_ids)
      score_of(id) == calculate_relevance_score(query_lower, query_words, patient_files[id], categories_arg)
      found == concat([i \in DOMAIN search_list |->
                         IF search_list[i] \notin indexed THEN <<>>
                         ELSE IF score_of(search_list[i]) > 0
                              THEN <<<<score_of(search_list[i]),
                                       SearchResult(search_list[i], score_of(search_list[i]),
                                                    query_lower, query_words)>>>>
                              ELSE <<>>])
  IN  all_docs(sort_desc(slice_to(found, max_results)))

\* search_patients on an indexer whose patients dict has the keys `patients`.
search_results(patients, query, patient_ids, categories_arg, max_results) ==
  LET query_lower == lower(chars[query])
      query_words == split(query_lower)
      indexed == {patients[i] : i \in DOMAIN patients}
      search_list == searched_patients(patients, patient_ids)
      score_of(id) == calculate_relevance_score(query_lower, query_words, patient_files[id], categories_arg)
      found == concat([i \in DOMAIN search_list |->
                         IF search_list[i] \notin indexed THEN <<>>
                         ELSE IF score_of(search_list[i]) > 0
                              THEN <<<<score_of(search_list[i]),
                                       SearchResult(search_list[i], score_of(search_list[i]),
                                                    query_lower, query_words)>>>>
                              ELSE <<>>])
  IN  all_docs(slice_to(sort_desc(found), max_results))

\* ------------------------------------------------------------------ state
VARIABLES
  top_k,        \* top_k[r]: the attribute set by the constructor
  documents,    \* the caller's corpus, a list of Documents in load order
  called,       \* called[r]: r.run has returned at least once
  query_arg,    \* query_arg[r]: the query of r's last run
  documents_arg,\* documents_arg[r]: the documents list of r's last run
  scored_docs,  \* scored_docs[r]: the sorted (score, doc) pairs of that run
  top_docs,     \* top_docs[r]: the documents that run returned
  loop_query,   \* the query of the last single iteration of the scoring loop
  loop_doc,     \* the content of the document of that iteration
  score_steps,  \* the local `score` after each of the four blocks of the loop
  op,           \* the last extractor or generator call: its name, or "none"
  call_query,   \* the query of that call
  call_documents, \* the documents list of that call
  extracted_info, \* the dict extract_specific_info returned in that call
  answer,       \* the answer the generator returned in that call
  search_call,  \* the last keyword searcher call: its name and arguments
  results,      \* the dict that call returned
  pipeline,     \* the last pipeline query: its name, question and returned answer
  mimic_call,   \* the last search_patients call: the index and the arguments
  mimic_results,\* the list that call returned
  interface,    \* the global `interface` of the web module: 0 for None, else the instance
  created,      \* the number of MIMICQueryInterface objects constructed so far
  requests,     \* requests[t]: the request server thread t is handling, and its response
  data_dir,     \* the patient data directory exists
  index_answered \* a GET / has been answered

\* The state of the retrievers and of the caller's corpus.
retriever_vars ==
  <<top_k, documents, called, query_arg, documents_arg, scored_docs, top_docs>>

\* The state of one iteration of the scoring loop.
loop_vars == <<loop_query, loop_doc, score_steps>>

\* The last call of the extractor or the answer generator.
extract_vars == <<op, call_query, call_documents, extracted_info, answer>>

\* The last call of the keyword searcher.
keyword_vars == <<search_call, results>>

\* The last query through a pipeline.
pipeline_vars == <<pipeline>>

\* The last call of the patient searcher.
mimic_vars == <<mimic_call, mimic_results>>

\* The threads of the web server.
Threads == {"t1", "t2"}

\* A server thread with no request.
Idle == [pc |-> "idle", route |-> "", status |-> 0, body |-> "", instance |-> 0]

\* The web module's global, its server threads and the data directory.
web_vars == <<interface, created, requests, data_dir, index_answered>>

vars == <<retriever_vars, loop_vars, extract_vars, keyword_vars,
          pipeline_vars, mimic_vars, web_vars>>

\* No pipeline query, patient search or web request has been made.
InitCalls ==
  /\ pipeline = [op |-> "none", question |-> "", documents |-> <<>>,
                 answer |-> [header |-> "", query |-> "", lines |-> <<>>]]
  /\ mimic_call = [op |-> "none", patients |-> <<>>, query |-> "", patient_ids |-> None,
                   categories |-> None, max_results |-> 0]
  /\ mimic_results = <<>>
  /\ interface = 0
  /\ created = 0
  /\ requests = [t \in Threads |-> Idle]
  /\ data_dir = TRUE
  /\ index_answered = FALSE

\* Document(content=..., meta={'paragraph_id': i, ...})
Document(content, paragraph_id) ==
  [content |-> content, meta |-> [paragraph_id |-> paragraph_id]]

\* A paragraph of a loaded case report: Document(content=..., meta=
\* {'paragraph_id': i, 'case_name': case_name, ...})
CaseDocument(content, case_name, paragraph_id) ==
  [content |-> content, meta |-> [paragraph_id |-> paragraph_id, case_name |-> case_name]]

\* Retrievers constructed, nothing loaded, nothing run.  The pipeline
\* factory constructs every retriever with the same top_k.
Init ==
  /\ \E k \in TopKs : top_k = [r \in Retrievers |-> k]
  /\ documents = <<>>
  /\ called = [r \in Retrievers |-> FALSE]
  /\ query_arg = [r \in Retrievers |-> ""]
  /\ documents_arg = [r \in Retrievers |-> <<>>]
  /\ scored_docs = [r \in Retrievers |-> <<>>]
  /\ top_docs = [r \in Retrievers |-> <<>>]
  /\ loop_query = ""
  /\ loop_doc = ""
  /\ score_steps = <<>>
  /\ op = "none"
  /\ call_query = ""
  /\ call_documents = <<>>
  /\ extracted_info = <<>>
  /\ answer = [header |-> "", query |-> "", lines |-> <<>>]
  /\ search_call = [op |-> "none", documents |-> <<>>, keywords |-> <<>>, category |-> "",
                    case_sensitive |-> FALSE, exact_match |-> FALSE]
  /\ results = <<>>
  /\ InitCalls

\* The loader appends one paragraph as a Document to the corpus.
load_document(content) ==
  /\ Len(documents) < MaxDocs
  /\ documents' = Append(documents, Document(content, Len(documents)))
  /\ UNCHANGED <<top_k, called, query_arg, documents_arg, scored_docs, top_docs>>

\* Faulty variant: scored_docs kept on the instance and not reset by run.
run_keeping_scored_docs(r, query) ==
  LET sorted == sort_desc(scored_docs[r] \o score_all(query, documents))
  IN  /\ scored_docs' = [scored_docs EXCEPT ![r] = sorted]
      /\ top_docs' = [top_docs EXCEPT ![r] = select_top(sorted, top_k[r], documents)]
      /\ called' = [called EXCEPT ![r] = TRUE]
      /\ query_arg' = [query_arg EXCEPT ![r] = query]
      /\ documents_arg' = [documents_arg EXCEPT ![r] = documents]
      /\ UNCHANGED <<top_k, documents>>

\* Faulty variant: the documents list is sorted in place by score.
run_sorting_in_place(r, query) ==
  LET sorted == sort_desc(score_all(query, documents))
  IN  /\ scored_docs' = [scored_docs EXCEPT ![r] = sorted]
      /\ top_docs' = [top_docs EXCEPT ![r] = select_top(sorted, top_k[r], all_docs(sorted))]
      /\ called' = [called EXCEPT ![r] = TRUE]
      /\ query_arg' = [query_arg EXCEPT ![r] = query]
      /\ documents_arg' = [documents_arg EXCEPT ![r] = all_docs(sorted)]
      /\ documents' = all_docs(sorted)
      /\ UNCHANGED top_k

\* r.run(query, documents) from scoring to the returned top_docs.
run(r, query) ==
  LET sorted == sort_desc(score_all(query, documents))
  IN  /\ scored_docs' = [scored_docs EXCEPT ![r] = sorted]
      /\ top_docs' = [top_docs EXCEPT ![r] = select_top(sorted, top_k[r], documents)]
      /\ called' = [called EXCEPT ![r] = TRUE]
      /\ query_arg' = [query_arg EXCEPT ![r] = query]
      /\ documents_arg' = [documents_arg EXCEPT ![r] = documents]
      /\ UNCHANGED <<top_k, documents>>

Next ==
  \/ (\E content \in Contents : load_document(content)) /\ UNCHANGED <<loop_vars, extract_vars, keyword_vars, pipeline_vars, mimic_vars, web_vars>>
  \/ (\E r \in Retrievers, query \in Queries : run(r, query)) /\ UNCHANGED <<loop_vars, extract_vars, keyword_vars, pipeline_vars, mimic_vars, web_vars>>

Spec == Init /\ [][Next]_vars

\* --------------------------------------- one iteration of the scoring loop
\* The value of the local `score` after the exact-phrase block, the
\* category block, the word block and the special-handling block.
score_trace(query, content) ==
  LET query_lower == lower(chars[query])
      query_words == split(query_lower)
      doc_lower   == lower(chars[content])
      s1 == exact_phrase_bonus(query_lower, doc_lower)
      s2 == s1 + category_bonus(query_lower, doc_lower)
      s3 == s2 + word_bonus(query_words, doc_lower)
      s4 == s3 + special_bonus(query_lower, doc_lower)
  IN  <<s1, s2, s3, s4>>

\* The traces, computed once per (query, content).
score_traces == [q \in ScoreQueries, c \in ScoreContents |-> score_trace(q, c)]

\* The body of `for doc in documents` for one document.
score_document(query, content) ==
  /\ loop_query' = query
  /\ loop_doc' = content
  /\ score_steps' = score_traces[query, content]
  /\ UNCHANGED <<retriever_vars, extract_vars, keyword_vars, pipeline_vars, mimic_vars, web_vars>>

NextScore ==
  \E query \in ScoreQueries, content \in ScoreContents : score_document(query, content)

SpecScore == Init /\ [][NextScore]_vars

\* ----------------------------------- extractor and answer generator calls
\* The document lists handed to the extractor and the generator.
document_lists ==
  UNION {{[i \in 1..n |-> Document(contents[i], i - 1)] : contents \in [1..n -> ExtractContents]}
         : n \in 0..MaxDocs}

\* A dict in which key maps to the list chosen for its category.
make_info(cats, pick) ==
  [key \in {info_keys[c] : c \in cats} |->
     pick[CHOOSE c \in categories : info_keys[c] = key]]

\* The lists a category can contribute: a result of its _extract_ method when
\* its if statement fires, nothing otherwise.
choices(category, cats, docs) ==
  IF category \in cats THEN extract(category, docs) ELSE {<<>>}

\* The dicts extract_specific_info(documents, query) can return.
extracted_infos(docs, query) ==
  LET fired == triggered(query)
      cats == {fired[i] : i \in DOMAIN fired}
  IN  {make_info(cats, [age |-> ages, sex |-> sex, diagnosis |-> diagnoses,
                        medications |-> medications, procedures |-> procedures,
                        complications |-> complications, outcomes |-> outcomes]) :
         ages \in choices("age", cats, docs),
         sex \in choices("sex", cats, docs),
         diagnoses \in choices("diagnosis", cats, docs),
         medications \in choices("medications", cats, docs),
         procedures \in choices("procedures", cats, docs),
         complications \in choices("complications", cats, docs),
         outcomes \in choices("outcomes", cats, docs)}

\* f"{value}" of a list entry: the text of a str, the repr of a tuple.
format_value(v) ==
  IF v.type = "str"
  THEN v.parts[1]
  ELSE <<"(">> \o
       join(<<",", " ">>, [i \in 1..Len(v.parts) |-> <<"'">> \o v.parts[i] \o <<"'">>]) \o
       <<")">>

\* The first line of a _format_ answer that lists entries.
found_headers ==
  [category \in categories |->
     CASE category = "age" -> "Patient ages found:"
       [] category = "sex" -> "Patient sex/gender:"
       [] category = "diagnosis" -> "Key Diagnoses found:"
       [] category = "medications" -> "Medications found:"
       [] category = "procedures" -> "Procedures found:"
       [] category = "complications" -> "Complications found:"
       [] category = "outcomes" -> "Outcomes found:"]

\* The fixed message of each _format_ method.
not_found_messages ==
  [category \in categories |->
     CASE category = "age" -> "No specific age information found in the case reports."
       [] category = "sex" -> "No specific sex/gender information found in the case reports."
       [] category = "diagnosis" -> "No specific diagnosis information found in the case reports."
       [] category = "medications" -> "No specific medication information found in the case reports."
       [] category = "procedures" -> "No specific procedure information found in the case reports."
       [] category = "complications" -> "No specific complication information found in the case reports."
       [] category = "outcomes" -> "No specific outcome information found in the case reports."]

\* An answer is its first line, the query put into that line where the
\* line has a {query} field, and the text of each further line (for the
\* _format_ methods: the text that follows the bullet mark).
Answer(header, query, lines) == [header |-> header, query |-> query, lines |-> lines]

diagnosis_keywords ==
  <<<<"c","a","n","c","e","r">>, <<"c","a","r","c","i","n","o","m","a">>,
    <<"d","i","s","e","a","s","e">>, <<"f","a","i","l","u","r","e">>,
    <<"a","p","n","e","a">>, <<"a","m","y","l","o","i","d","o","s","i","s">>,
    <<"d","i","a","b","e","t","e","s">>, <<"h","y","p","e","r","t","e","n","s","i","o","n">>,
    <<"f","i","b","r","i","l","l","a","t","i","o","n">>, <<"o","b","s","t","r","u","c","t","i","v","e">>,
    <<"h","e","a","r","t">>, <<"c","o","r","o","n","a","r","y">>, <<"a","t","r","i","a","l">>,
    <<"s","l","e","e","p">>, <<"o","b","s","t","r","u","c","t","i","v","e">>,
    <<"c","a","r","d","i","a","c">>>>

\* _format_diagnosis_answer for a non-empty list.
format_diagnoses(diagnoses) ==
  LET clean_diagnoses ==
        SelectSeq(diagnoses, LAMBDA diag :
                    /\ Len(diag.parts[1]) < 80
                    /\ any_term_in(diagnosis_keywords, lower(diag.parts[1])))
  IN  IF Len(clean_diagnoses) > 0
      THEN Answer("Key Diagnoses found:", "",
                  [i \in 1..Min(8, Len(clean_diagnoses)) |-> clean_diagnoses[i].parts[1]])
      ELSE Answer("Diagnoses found (showing first 5):", "",
                  [i \in 1..Min(5, Len(diagnoses)) |->
                     SubSeq(diagnoses[i].parts[1], 1, Min(60, Len(diagnoses[i].parts[1])))
                       \o <<".", ".", ".">>])

\* Faulty variant: an empty list is answered with the bare heading.
format_answer_bare_heading(category, info) ==
  IF info_keys[category] \in DOMAIN info
  THEN Answer(found_headers[category], "", <<>>)
  ELSE Answer(not_found_messages[category], "", <<>>)

\* _format_age_answer, _format_sex_answer, ...: the entries under their
\* heading when the key is present with a non-empty list, the fixed message
\* otherwise.
format_answer(category, info) ==
  LET key == info_keys[category]
  IN  IF key \in DOMAIN info /\ Len(info[key]) > 0
      THEN IF category = "diagnosis"
           THEN format_diagnoses(info[key])
           ELSE Answer(found_headers[category], "",
                       [i \in 1..Len(info[key]) |-> format_value(info[key][i])])
      ELSE Answer(not_found_messages[category], "", <<>>)

\* _format_general_answer: json.dumps(info, indent=2) under a heading naming
\* the query.  It is reached only when no trigger fires, so info is {}.
format_general_answer(info, query) ==
  Answer("Information found for '{query}':", query, <<<<"{", "}">>>>)

\* The query terms of the if/elif ladder of SpecificAnswerGenerator.run, with
\* the category whose _format_ method each branch calls.
branch_terms ==
  <<[category |-> "age",
     terms |-> <<<<"a","g","e">>, <<"o","l","d">>, <<"y","e","a","r">>>>],
    [category |-> "sex",
     terms |-> <<<<"s","e","x">>, <<"g","e","n","d","e","r">>, <<"m","a","l","e">>, <<"f","e","m","a","l","e">>>>],
    [category |-> "diagnosis",
     terms |-> <<<<"d","i","a","g","n","o","s","i","s">>, <<"d","i","a","g","n","o","s","e","s">>, <<"c","o","n","d","i","t","i","o","n">>, <<"d","i","s","e","a","s","e">>, <<"d","i","s","e","a","s","e","s">>>>],
    [category |-> "medications",
     terms |-> <<<<"m","e","d","i","c","a","t","i","o","n">>, <<"d","r","u","g">>, <<"m","e","d","i","c","i","n","e">>>>],
    [category |-> "procedures",
     terms |-> <<<<"p","r","o","c","e","d","u","r","e">>, <<"s","u","r","g","e","r","y">>, <<"o","p","e","r","a","t","i","o","n">>>>],
    [category |-> "complications",
     terms |-> <<<<"c","o","m","p","l","i","c","a","t","i","o","n">>, <<"p","r","o","b","l","e","m">>, <<"i","s","s","u","e">>>>],
    [category |-> "outcomes",
     terms |-> <<<<"o","u","t","c","o","m","e">>, <<"r","e","s","u","l","t">>, <<"d","i","s","c","h","a","r","g","e">>>>]>>

\* The branches of the ladder whose test holds for a query, in ladder order.
branches_hit(query) ==
  SelectSeq(branch_terms, LAMBDA branch : any_term_in(branch.terms, lower(chars[query])))

\* Faulty variant: a chain of plain ifs, so the last branch that holds wins.
generate_last_branch(query, info) ==
  LET hits == branches_hit(query)
  IN  IF Len(hits) > 0
      THEN format_answer(hits[Len(hits)].category, info)
      ELSE format_general_answer(info, query)

\* The answer of SpecificAnswerGenerator.run for a non-empty document list:
\* the if/elif ladder takes the first branch whose test holds.
generate(query, info) ==
  LET hits == branches_hit(query)
  IN  IF Len(hits) > 0
      THEN format_answer(hits[1].category, info)
      ELSE format_general_answer(info, query)

\* ------------------------------------------------ MultiCaseMedicalGenerator
\* The if/elif ladder of MultiCaseMedicalGenerator.run after the age
\* branch's own handling: for each branch the query terms that select it,
\* the content terms that make a document count, and the text that follows
\* case_info when a document counts and when none does.
answer_branches ==
  <<[query_terms |-> <<<<"a","g","e">>, <<"o","l","d">>, <<"y","e","a","r">>>>,
     content_terms |-> <<<<"y","e","a","r","-","o","l","d">>, <<"y","e","a","r","s"," ","o","l","d">>, <<"a","g","e">>>>,
     found |-> "Patient ages found:\n",
     not_found |-> "Age information found in the case reports, but specific ages could not be extracted. Here's the relevant content:\n\n"],
    [query_terms |-> <<<<"d","i","a","g","n","o","s","i","s">>, <<"c","o","n","d","i","t","i","o","n">>, <<"c","a","n","c","e","r">>>>,
     content_terms |-> <<<<"d","i","a","g","n","o","s","i","s">>, <<"c","o","n","d","i","t","i","o","n">>, <<"c","a","n","c","e","r">>, <<"c","a","r","c","i","n","o","m","a">>, <<"d","i","s","e","a","s","e">>>>,
     found |-> "Diagnoses found:\n\n",
     not_found |-> "Diagnosis information found. Here's the relevant content:\n\n"],
    [query_terms |-> <<<<"t","r","e","a","t","m","e","n","t">>, <<"t","h","e","r","a","p","y">>>>,
     content_terms |-> <<<<"t","r","e","a","t","m","e","n","t">>, <<"t","h","e","r","a","p","y">>, <<"s","u","r","g","e","r","y">>, <<"m","e","d","i","c","a","t","i","o","n">>>>,
     found |-> "Treatments found:\n\n",
     not_found |-> "Treatment information found. Here's the relevant content:\n\n"],
    [query_terms |-> <<<<"c","o","m","p","l","i","c","a","t","i","o","n","s">>, <<"p","r","o","b","l","e","m","s">>, <<"i","s","s","u","e","s">>>>,
     content_terms |-> <<<<"c","o","m","p","l","i","c","a","t","i","o","n">>, <<"p","r","o","b","l","e","m">>, <<"i","s","s","u","e">>, <<"d","i","s","t","r","e","s","s">>, <<"f","a","i","l","u","r","e">>>>,
     found |-> "Complications found:\n\n",
     not_found |-> "Complication information found. Here's the relevant content:\n\n"],
    [query_terms |-> <<<<"m","e","d","i","c","a","t","i","o","n">>, <<"d","r","u","g">>, <<"a","n","e","s","t","h","e","s","i","a">>>>,
     content_terms |-> <<<<"m","e","d","i","c","a","t","i","o","n">>, <<"d","r","u","g">>, <<"a","n","e","s","t","h","e","s","i","a">>, <<"m","g">>, <<"i","v">>>>,
     found |-> "Medications found:\n\n",
     not_found |-> "Medication information found. Here's the relevant content:\n\n"],
    [query_terms |-> <<<<"p","r","o","c","e","d","u","r","e">>, <<"s","u","r","g","e","r","y">>>>,
     content_terms |-> <<<<"p","r","o","c","e","d","u","r","e">>, <<"s","u","r","g","e","r","y">>, <<"o","p","e","r","a","t","i","o","n">>, <<"i","n","t","e","r","v","e","n","t","i","o","n">>>>,
     found |-> "Procedures found:\n\n",
     not_found |-> "Procedure information found. Here's the relevant content:\n\n"],
    [query_terms |-> <<<<"o","u","t","c","o","m","e">>, <<"r","e","s","u","l","t">>, <<"d","i","s","c","h","a","r","g","e">>>>,
     content_terms |-> <<<<"o","u","t","c","o","m","e">>, <<"r","e","s","u","l","t">>, <<"d","i","s","c","h","a","r","g","e">>, <<"d","i","e","d">>, <<"s","u","r","v","i","v","e","d">>>>,
     found |-> "Outcomes found:\n\n",
     not_found |-> "Outcome information found. Here's the relevant content:\n\n"]>>

\* str.isdigit() on the characters met here.
isdigit(s) == Len(s) > 0 /\ \A i \in DOMAIN s : s[i] \in digit_chars

\* s[:n]
prefix(s, n) == SubSeq(s, 1, Min(n, Len(s)))

ellipsis == <<".", ".", ".">>

\* age_info of one document: for every word of the lowered content that
\* holds 'year-old', the number in front of it or else the number behind it,
\* followed by the word.
doc_age_info(doc) ==
  LET content == lower(chars[doc.content])
      words == split(content)
      marks == <<answer_branches[1].content_terms[1], answer_branches[1].content_terms[2]>>
      found(i) ==
        IF ~any_term_in(marks, words[i]) THEN <<>>
        ELSE IF i > 1 /\ isdigit(words[i - 1]) THEN <<words[i - 1] \o <<" ">> \o words[i]>>
        ELSE IF i < Len(words) /\ isdigit(words[i + 1]) THEN <<words[i + 1] \o <<" ">> \o words[i]>>
        ELSE <<>>
  IN  IF any_term_in(answer_branches[1].content_terms, content)
      THEN concat([i \in 1..Len(words) |-> found(i)])
      ELSE <<>>

\* An answer of the multi-case generator: case_info (which depends on the
\* number of case names among the documents), the text that follows it, the
\* query where that text has a {query} field, and the lines after it.
MultiAnswer(case_sources, header, query, lines) ==
  [case_info |-> IF Cardinality(case_sources) > 1
                 THEN "Based on information from {len(case_sources)} medical case reports:\n\n"
                 ELSE "Based on the medical case report:\n\n",
   cases |-> Cardinality(case_sources),
   header |-> header, query |-> query, lines |-> lines]

\* The answers of the branch b of the ladder for a non-empty document list.
branch_answers(b, query, docs) ==
  LET case_sources == {case_name_of(docs[i]) : i \in DOMAIN docs}
      branch == answer_branches[b]
      first == prefix(chars[docs[1].content], 300) \o ellipsis
  IN  IF b = 1
      THEN LET age_info == concat([i \in 1..Len(docs) |-> doc_age_info(docs[i])])
           IN  IF Len(age_info) > 0
               THEN {MultiAnswer(case_sources, branch.found, "", lines) :
                       lines \in list_set(age_info)}
               ELSE {MultiAnswer(case_sources, branch.not_found, "", <<first>>)}
      ELSE LET hits == SelectSeq(docs, LAMBDA doc :
                         any_term_in(branch.content_terms, lower(chars[doc.content])))
           IN  IF Len(hits) > 0
               THEN {MultiAnswer(case_sources, branch.found, "",
                                 [i \in 1..Min(3, Len(hits)) |->
                                    prefix(chars[hits[i].content], 200) \o ellipsis])}
               ELSE {MultiAnswer(case_sources, branch.not_found, "", <<first>>)}

\* Faulty variant: an empty document list is answered like any other.
multi_case_answers_no_guard(query, docs) ==
  {MultiAnswer({}, "Here's what I found regarding '{query}':\n\n", query, <<>>)}

\* The answers MultiCaseMedicalGenerator.run(query, documents) can return.
multi_case_answers(query, docs) ==
  IF Len(docs) = 0
  THEN {Answer("I'm sorry, I couldn't find any relevant information about '{query}' in the medical case reports. Please try asking about patient conditions, treatments, complications, or specific medical details.",
               query, <<>>)}
  ELSE LET query_lower == lower(chars[query])
           fired == {b \in DOMAIN answer_branches :
                       any_term_in(answer_branches[b].query_terms, query_lower)}
       IN  IF fired # {}
           THEN branch_answers(CHOOSE b \in fired : \A c \in fired : b <= c, query, docs)
           ELSE {MultiAnswer({case_name_of(docs[i]) : i \in DOMAIN docs},
                             "Here's what I found regarding '{query}':\n\n", query,
                             <<prefix(chars[docs[1].content], 300) \o ellipsis>>)}

\* The answer before any call of the generator.
NoAnswer == Answer("", "", <<>>)

\* A direct call extractor.extract_specific_info(documents, query) by a
\* caller that holds no earlier result.
extract_specific_info(docs, query) ==
  /\ op = "none"
  /\ op' = "extract_specific_info"
  /\ call_query' = query
  /\ call_documents' = docs
  /\ extracted_info' \in extracted_infos(docs, query)
  /\ answer' = NoAnswer
  /\ UNCHANGED <<retriever_vars, loop_vars, keyword_vars, pipeline_vars, mimic_vars, web_vars>>

\* generator.run(query, documents), the extraction it performs included.
generator_run(query, docs) ==
  /\ op = "none"
  /\ op' = "run"
  /\ call_query' = query
  /\ call_documents' = docs
  /\ IF Len(docs) = 0
     THEN /\ extracted_info' = <<>>
          /\ answer' = Answer("No relevant documents found for query: {query}", query, <<>>)
     ELSE /\ extracted_info' \in extracted_infos(docs, query)
          /\ answer' = generate(query, extracted_info')
  /\ UNCHANGED <<retriever_vars, loop_vars, keyword_vars, pipeline_vars, mimic_vars, web_vars>>

\* The caller returns and the results of its call go out of scope.
caller_returns ==
  /\ op # "none"
  /\ op' = "none"
  /\ call_query' = ""
  /\ call_documents' = <<>>
  /\ extracted_info' = <<>>
  /\ answer' = NoAnswer
  /\ UNCHANGED <<retriever_vars, loop_vars, keyword_vars, pipeline_vars, mimic_vars, web_vars>>

\* A call is made only by a caller that holds no earlier result: the test is
\* made once, before the arguments are drawn.
NextExtract ==
  \/ /\ op = "none"
     /\ \E docs \in document_lists, query \in ExtractQueries : extract_specific_info(docs, query)
  \/ /\ op = "none"
     /\ \E docs \in document_lists, query \in ExtractQueries : generator_run(query, docs)
  \/ caller_returns

\* The generator's pipeline constructs its retriever with top_k=5; no
\* component has been called.
InitExtract ==
  /\ top_k = [r \in Retrievers |-> 5]
  /\ documents = <<>>
  /\ called = [r \in Retrievers |-> FALSE]
  /\ query_arg = [r \in Retrievers |-> ""]
  /\ documents_arg = [r \in Retrievers |-> <<>>]
  /\ scored_docs = [r \in Retrievers |-> <<>>]
  /\ top_docs = [r \in Retrievers |-> <<>>]
  /\ loop_query = ""
  /\ loop_doc = ""
  /\ score_steps = <<>>
  /\ op = "none"
  /\ call_query = ""
  /\ call_documents = <<>>
  /\ extracted_info = <<>>
  /\ answer = NoAnswer
  /\ search_call = [op |-> "none", documents |-> <<>>, keywords |-> <<>>, category |-> "",
                    case_sensitive |-> FALSE, exact_match |-> FALSE]
  /\ results = <<>>
  /\ InitCalls

SpecExtract == InitExtract /\ [][NextExtract]_vars

\* -------------------------------------------------- keyword searcher calls
\* Case names of loaded reports.
CaseNames == {"case1", "case2"}

\* Category arguments of search_by_category: the table's keys, a name that
\* is no key, and a key in another letter case.
CategoryArgs == category_names \cup {"unknown", "Demographics"}

\* The documents handed to the keyword searcher: paragraphs of loaded case
\* reports, and a document whose meta has no case_name.
keyword_documents ==
  {CaseDocument(content, case_name, 0) : content \in KeywordContents, case_name \in CaseNames}
    \cup {Document("Age 74, old age.", 0)}

keyword_document_lists == UNION {[1..n -> keyword_documents] : n \in 0..MaxDocs}

\* The keyword lists a caller asks for: none, one keyword, a keyword in two
\* letter cases, keywords of different texts, and a keyword given twice.
keyword_lists ==
  {<<>>, <<"age">>, <<"Age", "age">>, <<"age", "ward">>, <<"ward", "age", "Age">>,
   <<"ward", "ward">>}

\* No call of the keyword searcher is held by a caller.
NoSearch ==
  [op |-> "none", documents |-> <<>>, keywords |-> <<>>, category |-> "",
   case_sensitive |-> FALSE, exact_match |-> FALSE]

\* searcher.search_keywords(documents, keywords, case_sensitive, exact_match)
\* by a caller that holds no earlier result.
search_keywords(docs, keywords, case_sensitive, exact_match) ==
  /\ search_call = NoSearch
  /\ search_call' = [op |-> "search_keywords", documents |-> docs, keywords |-> keywords,
                     category |-> "", case_sensitive |-> case_sensitive,
                     exact_match |-> exact_match]
  /\ results' = keyword_results(docs, keywords, case_sensitive, exact_match)

\* searcher.search_by_category(documents, category); keywords records the
\* list handed on to search_keywords, if any.
search_by_category(docs, category) ==
  /\ search_call = NoSearch
  /\ search_call' = [op |-> "search_by_category", documents |-> docs,
                     keywords |-> IF category \in category_names
                                  THEN keyword_categories[category] ELSE <<>>,
                     category |-> category, case_sensitive |-> FALSE,
                     exact_match |-> FALSE]
  /\ results' = category_results(docs, category)

\* The caller is done with the results.
search_returns ==
  /\ search_call # NoSearch
  /\ search_call' = NoSearch
  /\ results' = <<>>

NextKeyword ==
  \/ /\ search_call.op = "none"
     /\ \E docs \in keyword_document_lists, keywords \in keyword_lists,
           case_sensitive \in BOOLEAN, exact_match \in BOOLEAN :
          search_keywords(docs, keywords, case_sensitive, exact_match)
     /\ UNCHANGED <<retriever_vars, loop_vars, extract_vars, pipeline_vars, mimic_vars, web_vars>>
  \/ /\ search_call.op = "none"
     /\ \E docs \in keyword_document_lists, category \in CategoryArgs :
          search_by_category(docs, category)
     /\ UNCHANGED <<retriever_vars, loop_vars, extract_vars, pipeline_vars, mimic_vars, web_vars>>
  \/ search_returns /\ UNCHANGED <<retriever_vars, loop_vars, extract_vars, pipeline_vars, mimic_vars, web_vars>>

SpecKeyword == InitExtract /\ [][NextKeyword]_vars

\* ---------------------------------------------------------- query pipelines
\* The answer of both query functions when no document could be loaded.
LoadError == Answer("Error: Could not load any medical case reports.", "", <<>>)

\* The value of `pipeline` while no query function is running.
NoQuery == [op |-> "none", question |-> "", documents |-> <<>>, answer |-> NoAnswer]

\* One more paragraph of the report case_name is in the files that
\* load_multiple_case_reports reads; `documents` is the list it returns.
load_case_report(content, case_name) ==
  /\ pipeline.op = "none"
  /\ Len(documents) < MaxDocs
  /\ documents' = Append(documents, CaseDocument(content, case_name, Len(documents)))
  /\ UNCHANGED <<top_k, called, query_arg, documents_arg, scored_docs, top_docs>>
  /\ UNCHANGED <<loop_vars, extract_vars, keyword_vars, pipeline_vars, mimic_vars, web_vars>>

\* Faulty variant: the pipeline runs on whatever was loaded, an empty list
\* included.
query_multiple_cases_unguarded(question) ==
  /\ pipeline.op = "none"
  /\ run("r1", question)
  /\ \E a \in multi_case_answers(question, top_docs'["r1"]) :
       pipeline' = [op |-> "query_multiple_cases", question |-> question,
                    documents |-> top_docs'["r1"], answer |-> a]
  /\ UNCHANGED <<loop_vars, extract_vars, keyword_vars, mimic_vars, web_vars>>

\* query_multiple_cases(question, config): load, then the pipeline of
\* create_multi_case_pipeline (retriever r1 with top_k = 5, generator fed
\* by retriever.documents).
query_multiple_cases(question) ==
  /\ pipeline.op = "none"
  /\ IF Len(documents) = 0
     THEN /\ pipeline' = [op |-> "query_multiple_cases", question |-> question,
                          documents |-> <<>>, answer |-> LoadError]
          /\ UNCHANGED retriever_vars
     ELSE /\ run("r1", question)
          /\ \E a \in multi_case_answers(question, top_docs'["r1"]) :
               pipeline' = [op |-> "query_multiple_cases", question |-> question,
                            documents |-> top_docs'["r1"], answer |-> a]
  /\ UNCHANGED <<loop_vars, extract_vars, keyword_vars, mimic_vars, web_vars>>

\* query_with_intelligent_extraction(question, config): load, then the
\* pipeline of create_intelligent_pipeline (retriever r2 with top_k = 5,
\* SpecificAnswerGenerator fed by retriever.documents).
query_with_intelligent_extraction(question) ==
  /\ pipeline.op = "none"
  /\ IF Len(documents) = 0
     THEN /\ pipeline' = [op |-> "query_with_intelligent_extraction", question |-> question,
                          documents |-> <<>>, answer |-> LoadError]
          /\ UNCHANGED <<retriever_vars, extract_vars>>
     ELSE /\ run("r2", question)
          /\ op' = "run"
          /\ call_query' = question
          /\ call_documents' = top_docs'["r2"]
          /\ IF Len(call_documents') = 0
             THEN /\ extracted_info' = <<>>
                  /\ answer' = Answer("No relevant documents found for query: {query}", question, <<>>)
             ELSE /\ extracted_info' \in extracted_infos(call_documents', question)
                  /\ answer' = generate(question, extracted_info')
          /\ pipeline' = [op |-> "query_with_intelligent_extraction", question |-> question,
                          documents |-> call_documents', answer |-> answer']
  /\ UNCHANGED <<loop_vars, keyword_vars, mimic_vars, web_vars>>

\* The query function returns: its pipeline, retriever and generator go out
\* of scope; the files stay as they are.
pipeline_returns ==
  /\ pipeline.op # "none"
  /\ pipeline' = NoQuery
  /\ called' = [r \in Retrievers |-> FALSE]
  /\ query_arg' = [r \in Retrievers |-> ""]
  /\ documents_arg' = [r \in Retrievers |-> <<>>]
  /\ scored_docs' = [r \in Retrievers |-> <<>>]
  /\ top_docs' = [r \in Retrievers |-> <<>>]
  /\ op' = "none"
  /\ call_query' = ""
  /\ call_documents' = <<>>
  /\ extracted_info' = <<>>
  /\ answer' = NoAnswer
  /\ UNCHANGED <<top_k, documents, loop_vars, keyword_vars, mimic_vars, web_vars>>

NextPipeline ==
  \/ \E content \in Contents, case_name \in CaseNames : load_case_report(content, case_name)
  \/ \E question \in Queries : query_multiple_cases(question)
  \/ \E question \in Queries : query_with_intelligent_extraction(question)
  \/ pipeline_returns

SpecPipeline == InitExtract /\ [][NextPipeline]_vars

\* ------------------------------------- retriever and extractor on one corpus
\* A caller that keeps its corpus and its retriever r1 (top_k = 5) and calls
\* run and extract_specific_info on that corpus in any order.
NextPure ==
  \/ (\E content \in Contents : load_document(content))
       /\ UNCHANGED <<loop_vars, extract_vars, keyword_vars, pipeline_vars, mimic_vars, web_vars>>
  \/ (\E query \in Queries : run("r1", query))
       /\ UNCHANGED <<loop_vars, extract_vars, keyword_vars, pipeline_vars, mimic_vars, web_vars>>
  \/ \E query \in Queries : extract_specific_info(documents, query)
  \/ caller_returns

SpecPure == InitExtract /\ [][NextPure]_vars

\* ------------------------------------------------- patient searcher calls
\* patient_ids arguments: None, an empty list, indexed ids, an id that no
\* file has, and an id listed twice.
patient_id_args ==
  {None, Some(<<>>), Some(<<"10001">>), Some(<<"10002", "10001">>),
   Some(<<"10001", "99999">>), Some(<<"10003", "10001", "10001">>)}

\* categories arguments: None, an empty list, and lists of category names,
\* one of them with a name the indexer does not have.
category_args ==
  {None, Some(<<>>), Some(<<"symptoms">>), Some(<<"procedures", "medications", "unknown">>)}

\* The value of mimic_call while no search is running.
NoPatientSearch ==
  [op |-> "none", patients |-> <<>>, query |-> "", patient_ids |-> None,
   categories |-> None, max_results |-> 0]

\* searcher.search_patients(query, patient_ids, categories, max_results) on
\* an indexer that has loaded `patients`, by a caller that holds no earlier
\* result.
search_patients(patients, query, patient_ids, categories_arg, max_results) ==
  /\ mimic_call.op = "none"
  /\ mimic_call' = [op |-> "search_patients", patients |-> patients, query |-> query,
                    patient_ids |-> patient_ids, categories |-> categories_arg,
                    max_results |-> max_results]
  /\ mimic_results' = search_results(patients, query, patient_ids, categories_arg, max_results)
  /\ UNCHANGED <<retriever_vars, loop_vars, extract_vars, keyword_vars, pipeline_vars, web_vars>>

\* The caller returns and the result list goes out of scope.
search_patients_returns ==
  /\ mimic_call.op # "none"
  /\ mimic_call' = NoPatientSearch
  /\ mimic_results' = <<>>
  /\ UNCHANGED <<retriever_vars, loop_vars, extract_vars, keyword_vars, pipeline_vars, web_vars>>

NextMimic ==
  \/ \E patients \in patient_indexes, query \in MimicQueries, patient_ids \in patient_id_args,
        categories_arg \in category_args, max_results \in 0..MaxResults :
       search_patients(patients, query, patient_ids, categories_arg, max_results)
  \/ search_patients_returns

SpecMimic == InitExtract /\ [][NextMimic]_vars

\* ------------------------------------------------------------ web interface
\* The patients MIMICQueryInterface() loads from the data directory.
loaded_patients == <<"10001", "10002", "10003", "10004">>

\* The JSON bodies of /api/search requests: the `query` member missing,
\* empty, and given.
search_bodies ==
  {[query |-> None], [query |-> Some("")], [query |-> Some("chest pain")], [query |-> Some("xy")]}

\* Thread t answers its request.
respond(t, route, status, body) ==
  requests' = [requests EXCEPT ![t] =
                 [pc |-> "responded", route |-> route, status |-> status, body |-> body,
                  instance |-> 0]]

\* An /api/ handler calls a method of the global `interface` inside its
\* try block: on None the AttributeError is caught and answered with 500.
use_interface(t, route, status, body) ==
  /\ IF interface = 0
     THEN respond(t, route, 500, "error")
     ELSE respond(t, route, status, body)
  /\ UNCHANGED <<interface, created>>

\* GET / up to the end of the constructor call in init_interface: with the
\* global set, the page is rendered; otherwise MIMICQueryInterface() loads
\* the data directory, or raises FileNotFoundError when it does not exist,
\* which the route does not catch.
index_begin(t) ==
  /\ requests[t].pc = "idle"
  /\ IF interface # 0
     THEN /\ respond(t, "/", 200, "index.html")
          /\ index_answered' = TRUE
          /\ UNCHANGED created
     ELSE IF data_dir
          THEN /\ created' = created + 1
               /\ requests' = [requests EXCEPT ![t] =
                                 [pc |-> "constructed", route |-> "/", status |-> 0, body |-> "",
                                  instance |-> created + 1]]
               /\ UNCHANGED index_answered
          ELSE /\ respond(t, "/", 500, "error")
               /\ index_answered' = TRUE
               /\ UNCHANGED created
  /\ UNCHANGED <<interface, data_dir>>
  /\ UNCHANGED <<retriever_vars, loop_vars, extract_vars, keyword_vars, pipeline_vars, mimic_vars>>

\* GET / from the assignment of the new object to the global on.
index_end(t) ==
  /\ requests[t].pc = "constructed"
  /\ interface' = requests[t].instance
  /\ respond(t, "/", 200, "index.html")
  /\ index_answered' = TRUE
  /\ UNCHANGED <<created, data_dir>>
  /\ UNCHANGED <<retriever_vars, loop_vars, extract_vars, keyword_vars, pipeline_vars, mimic_vars>>

\* POST /api/search with a JSON body.
api_search(t, data) ==
  /\ requests[t].pc = "idle"
  /\ IF data.query = None \/ Len(chars[data.query[1]]) = 0
     THEN /\ respond(t, "/api/search", 400, "Query is required")
          /\ UNCHANGED <<interface, created>>
     ELSE use_interface(t, "/api/search", 200,
                        IF search_results(loaded_patients, data.query[1], None, None, 10) = <<>>
                        THEN "no results" ELSE "results")
  /\ UNCHANGED <<data_dir, index_answered>>
  /\ UNCHANGED <<retriever_vars, loop_vars, extract_vars, keyword_vars, pipeline_vars, mimic_vars>>

\* GET /api/patient/<patient_id>
api_patient_info(t, patient_id) ==
  /\ requests[t].pc = "idle"
  /\ IF patient_id \in {loaded_patients[i] : i \in DOMAIN loaded_patients}
     THEN use_interface(t, "/api/patient", 200, "info")
     ELSE use_interface(t, "/api/patient", 404, "Patient not found")
  /\ UNCHANGED <<data_dir, index_answered>>
  /\ UNCHANGED <<retriever_vars, loop_vars, extract_vars, keyword_vars, pipeline_vars, mimic_vars>>

\* GET /api/patients
api_patients(t) ==
  /\ requests[t].pc = "idle"
  /\ use_interface(t, "/api/patients", 200, "patients")
  /\ UNCHANGED <<data_dir, index_answered>>
  /\ UNCHANGED <<retriever_vars, loop_vars, extract_vars, keyword_vars, pipeline_vars, mimic_vars>>

\* GET /api/stats
api_stats(t) ==
  /\ requests[t].pc = "idle"
  /\ use_interface(t, "/api/stats", 200, "stats")
  /\ UNCHANGED <<data_dir, index_answered>>
  /\ UNCHANGED <<retriever_vars, loop_vars, extract_vars, keyword_vars, pipeline_vars, mimic_vars>>

\* The response of thread t has been sent; the thread is free again.
send_response(t) ==
  /\ requests[t].pc = "responded"
  /\ requests' = [requests EXCEPT ![t] = Idle]
  /\ UNCHANGED <<interface, created, data_dir, index_answered>>
  /\ UNCHANGED <<retriever_vars, loop_vars, extract_vars, keyword_vars, pipeline_vars, mimic_vars>>

\* The data directory is removed, or put back.
data_directory(exists) ==
  /\ data_dir # exists
  /\ data_dir' = exists
  /\ UNCHANGED <<interface, created, requests, index_answered>>
  /\ UNCHANGED <<retriever_vars, loop_vars, extract_vars, keyword_vars, pipeline_vars, mimic_vars>>

NextWeb ==
  \/ \E t \in Threads : index_begin(t)
  \/ \E t \in Threads : index_end(t)
  \/ \E t \in Threads, data \in search_bodies : api_search(t, data)
  \/ \E t \in Threads, patient_id \in {"10001", "99999"} : api_patient_info(t, patient_id)
  \/ \E t \in Threads : api_patients(t)
  \/ \E t \in Threads : api_stats(t)
  \/ \E t \in Threads : send_response(t)
  \/ \E exists \in BOOLEAN : data_directory(exists)

SpecWeb == InitExtract /\ [][NextWeb]_vars

\* ------------------------------------------------------------- properties
\* Number of occurrences of d in the list seq.
Count(d, seq) == Cardinality({i \in DOMAIN seq : seq[i] = d})

\* The score r's last run gave document d.
ScoreIn(r, d) == scores[query_arg[r], d.content]

\* Number of documents of r's last corpus that scored above 0.
NumPositive(r) ==
  Cardinality({i \in DOMAIN documents_arg[r] : ScoreIn(r, documents_arg[r][i]) > 0})

\* The lowercased query of r's last run occurs in the lowercased document d.
ExactMatch(r, d) == contains(lower(chars[query_arg[r]]), lower(chars[d.content]))

\* C1: on a non-empty corpus a run returns at most top_k documents, and
\* every returned document occurs in the corpus at least as often as in the
\* result (nothing fabricated, nothing duplicated).
C1_AtMostTopKFromCorpus ==
  \A r \in Retrievers :
    (called[r] /\ documents_arg[r] # <<>> /\ top_k[r] >= 0) =>
      /\ Len(top_docs[r]) <= top_k[r]
      /\ \A i \in DOMAIN top_docs[r] :
           Count(top_docs[r][i], top_docs[r]) <= Count(top_docs[r][i], documents_arg[r])

\* A run on a corpus larger than top_k returned exactly top_k >= 1 documents.
C1_Witness ==
  \E r \in Retrievers :
    /\ called[r]
    /\ top_k[r] >= 1
    /\ Len(documents_arg[r]) > top_k[r]
    /\ Len(top_docs[r]) = top_k[r]

\* C2: the returned documents are in non-increasing score order, and
\* returned documents with equal scores keep their relative corpus order:
\* the result can be mapped position by position into the corpus so that
\* equal-score documents map to increasing corpus positions.
C2_DescendingStable ==
  \A r \in Retrievers :
    called[r] =>
      /\ \A i, j \in DOMAIN top_docs[r] :
           i < j => ScoreIn(r, top_docs[r][i]) >= ScoreIn(r, top_docs[r][j])
      /\ \E f \in [DOMAIN top_docs[r] -> DOMAIN documents_arg[r]] :
           /\ \A i \in DOMAIN top_docs[r] : documents_arg[r][f[i]] = top_docs[r][i]
           /\ \A i, j \in DOMAIN top_docs[r] :
                (i < j /\ ScoreIn(r, top_docs[r][i]) = ScoreIn(r, top_docs[r][j]))
                  => f[i] < f[j]

\* One run returned two different documents with equal scores, and one run
\* returned first a document that is not first in the corpus.
C2_Witness ==
  /\ \E r \in Retrievers :
       /\ called[r]
       /\ Len(top_docs[r]) >= 2
       /\ top_docs[r][1] # top_docs[r][2]
       /\ ScoreIn(r, top_docs[r][1]) = ScoreIn(r, top_docs[r][2])
  /\ \E r \in Retrievers :
       /\ called[r]
       /\ Len(top_docs[r]) >= 2
       /\ top_docs[r][1] = documents_arg[r][2]
       /\ ScoreIn(r, top_docs[r][1]) > ScoreIn(r, top_docs[r][2])

\* C3: when some document scores above 0, the result is exactly the
\* positive-score documents among the first top_k pairs of the descending
\* order, its length is min(top_k, number of positive-score documents), and
\* it holds no zero-score document.
C3_PositiveOnly ==
  \A r \in Retrievers :
    (called[r] /\ NumPositive(r) > 0) =>
      LET first == SubSeq(scored_docs[r], 1, Min(top_k[r], Len(scored_docs[r])))
          kept  == SelectSeq(first, LAMBDA p : p[1] > 0)
      IN  /\ top_docs[r] = [i \in 1..Len(kept) |-> kept[i][2]]
          /\ Len(top_docs[r]) = Min(top_k[r], NumPositive(r))
          /\ \A i \in DOMAIN top_docs[r] : ScoreIn(r, top_docs[r][i]) > 0

\* A run with top_k documents or more in the corpus returned fewer than
\* top_k documents because the rest scored 0.
C3_Witness ==
  \E r \in Retrievers :
    /\ called[r]
    /\ NumPositive(r) > 0
    /\ Len(documents_arg[r]) >= top_k[r]
    /\ Len(top_docs[r]) < top_k[r]
    /\ Len(top_docs[r]) >= 1

\* C4: when no document scores above 0 and the corpus is not empty, the
\* result is the first min(top_k, corpus size) documents in corpus order.
C4_Fallback ==
  \A r \in Retrievers :
    (called[r] /\ documents_arg[r] # <<>> /\ NumPositive(r) = 0) =>
      top_docs[r] = SubSeq(documents_arg[r], 1, Min(top_k[r], Len(documents_arg[r])))

\* A run over two zero-score documents returned both, in corpus order.
C4_Witness ==
  \E r \in Retrievers :
    /\ called[r]
    /\ Len(documents_arg[r]) = 2
    /\ NumPositive(r) = 0
    /\ top_docs[r] = documents_arg[r]

\* C5: a document whose lowercased content contains the lowercased query
\* scores at least 15; the query "74-year-old" over the single document
\* "A 74-year-old woman with breast cancer." with top_k = 3 returns that
\* document.
C5_ExactPhraseAtLeast15 ==
  \A r \in Retrievers :
    called[r] =>
      /\ \A i \in DOMAIN scored_docs[r] :
           ExactMatch(r, scored_docs[r][i][2]) => scored_docs[r][i][1] >= 15
      /\ (/\ query_arg[r] = "74-year-old"
          /\ documents_arg[r] = <<Document("A 74-year-old woman with breast cancer.", 0)>>
          /\ top_k[r] = 3)
           => top_docs[r] = documents_arg[r]

\* The "74-year-old" scenario has run: one document, an exact match.
C5_Witness ==
  \E r \in Retrievers :
    /\ called[r]
    /\ query_arg[r] = "74-year-old"
    /\ documents_arg[r] = <<Document("A 74-year-old woman with breast cancer.", 0)>>
    /\ top_k[r] = 3
    /\ ExactMatch(r, documents_arg[r][1])
    /\ scored_docs[r][1][1] >= 15

\* C6: no document without an exact (case-insensitive) substring match of
\* the query scores strictly higher than a document with one.
C6_ExactMatchNeverOutscored ==
  \A r \in Retrievers :
    called[r] =>
      \A i, j \in DOMAIN scored_docs[r] :
        (/\ ExactMatch(r, scored_docs[r][i][2])
         /\ ~ExactMatch(r, scored_docs[r][j][2]))
          => scored_docs[r][i][1] >= scored_docs[r][j][1]

\* C7: a run on an empty corpus returns the empty list.
C7_EmptyCorpusEmptyResult ==
  \A r \in Retrievers :
    (called[r] /\ documents_arg[r] = <<>>) => top_docs[r] = <<>>

\* A run with top_k >= 1 on the empty corpus has returned.
C7_Witness ==
  \E r \in Retrievers :
    /\ called[r]
    /\ documents_arg[r] = <<>>
    /\ top_k[r] >= 1
    /\ top_docs[r] = <<>>

C9_EmptyQueryScoresZero ==
  \A r \in Retrievers :
    (called[r] /\ query_arg[r] = "") =>
      \A i \in DOMAIN scored_docs[r] : scored_docs[r][i][1] = 0

\* C10: for the empty query and a non-empty corpus the result is the first
\* min(top_k, corpus size) documents in corpus order.
C10_EmptyQueryPrefix ==
  \A r \in Retrievers :
    (called[r] /\ query_arg[r] = "" /\ documents_arg[r] # <<>>) =>
      top_docs[r] = SubSeq(documents_arg[r], 1, Min(top_k[r], Len(documents_arg[r])))

\* The empty query ran over two documents with top_k = 1 and returned the
\* first one.
C10_Witness ==
  \E r \in Retrievers :
    /\ called[r]
    /\ query_arg[r] = ""
    /\ Len(documents_arg[r]) = 2
    /\ top_k[r] = 1
    /\ top_docs[r] = <<documents_arg[r][1]>>

\* ------------------------------------------- properties of the scoring loop
\* An iteration of the scoring loop has run.
Scored == score_steps # <<>>

LoopQueryLower == lower(chars[loop_query])

LoopDocLower == lower(chars[loop_doc])

\* What the category, word and special-handling blocks added to `score`.
CategoryGain == score_steps[2] - score_steps[1]

WordGain == score_steps[3] - score_steps[2]

SpecialGain == score_steps[4] - score_steps[3]

RECURSIVE SumSeq(_)
SumSeq(s) == IF s = <<>> THEN 0 ELSE Head(s) + SumSeq(Tail(s))

\* 8 for a category with some term in the query and some term in the document.
CategoryHits ==
  [c \in DOMAIN medical_terms |->
     IF /\ \E i \in DOMAIN medical_terms[c] : contains(medical_terms[c][i], LoopQueryLower)
        /\ \E j \in DOMAIN medical_terms[c] : contains(medical_terms[c][j], LoopDocLower)
     THEN 8 ELSE 0]

\* C11: the category block adds exactly 8 for each category that has a term
\* in the (lowercased) query and a term in the (lowercased) document, not
\* necessarily the same one, and 0 for any other; many matching terms still
\* give 8, and a term of two categories ('surgery', 'oxygen') gives 8 for each.
C11_CategoryBonus ==
  Scored =>
    /\ CategoryGain = SumSeq(CategoryHits)
    /\ (loop_query = "surgery" /\ loop_doc = "surgery") => CategoryGain = 16
    /\ (loop_query = "surgery" /\ loop_doc = "ablation") => CategoryGain = 16
    /\ (loop_query = "oxygen" /\ loop_doc = "oxygen") => CategoryGain = 16
    /\ (loop_query = "oxygen" /\ loop_doc = "pulse") => CategoryGain = 8
    /\ (loop_query = "Blood Pressure test" /\ loop_doc = "oxygen") => CategoryGain = 16
    /\ (loop_query = "woman" /\ loop_doc = "surgery") => CategoryGain = 0

\* 'surgery' against a document with another term of both its categories.
C11_Witness ==
  /\ Scored
  /\ loop_query = "surgery"
  /\ loop_doc = "ablation"
  /\ CategoryGain = 16

\* The whitespace-separated words of the lowercased query, as the pairs
\* (first, last) of their character positions.
QueryWordSpans ==
  {span \in (DOMAIN LoopQueryLower) \X (DOMAIN LoopQueryLower) :
     /\ span[1] <= span[2]
     /\ \A i \in span[1]..span[2] : LoopQueryLower[i] \notin whitespace
     /\ span[1] = 1 \/ LoopQueryLower[span[1] - 1] \in whitespace
     /\ span[2] = Len(LoopQueryLower) \/ LoopQueryLower[span[2] + 1] \in whitespace}

\* C12: the word block adds 2 for every whitespace-separated query word
\* longer than 2 characters that is a substring of the lowercased document,
\* once per occurrence of the word in the query, and nothing for words of
\* length <= 2.
C12_WordBonus ==
  Scored =>
    /\ WordGain =
         2 * Cardinality({span \in QueryWordSpans :
                            /\ span[2] - span[1] + 1 > 2
                            /\ contains(SubSeq(LoopQueryLower, span[1], span[2]),
                                        LoopDocLower)})
    /\ (loop_query = "old old" /\ loop_doc = "bold") => WordGain = 4
    /\ (loop_query = "is old" /\ loop_doc = "this is bold") => WordGain = 2
    /\ (loop_query = "xy" /\ loop_doc = "oxygen") => WordGain = 0

\* 'old' twice in the query, found inside 'bold'; and a two-letter word that
\* occurs in the document has been scored as well.
C12_Witness ==
  /\ Scored
  /\ loop_query = "old old"
  /\ loop_doc = "bold"
  /\ WordGain = 4

\* 1 when the rule's query side hits the query and its document side the
\* document.
RuleHit(query_terms, doc_terms) ==
  IF /\ \E i \in DOMAIN query_terms : contains(query_terms[i], LoopQueryLower)
     /\ \E j \in DOMAIN doc_terms : contains(doc_terms[j], LoopDocLower)
  THEN 1 ELSE 0

\* C13: each of the four special-handling rules (age/year, cancer, breast,
\* bone/sacral) adds exactly 10 when the query has a term of its query side
\* and the document a term of its document side, and 0 otherwise; the rules
\* are independent and add at most 40.
C13_DomainBoosts ==
  Scored =>
    /\ SpecialGain = 10 * ( RuleHit(age_query_terms, age_doc_terms)
                          + RuleHit(cancer_query_terms, cancer_doc_terms)
                          + RuleHit(breast_query_terms, breast_doc_terms)
                          + RuleHit(bone_query_terms, bone_doc_terms) )
    /\ SpecialGain <= 40
    /\ (loop_query = "old breast cancer bone" /\ loop_doc = "year-old breast cancer bone")
         => SpecialGain = 40
    /\ (loop_query = "mammary" /\ loop_doc = "year-old breast cancer bone")
         => SpecialGain = 10
    /\ (loop_query = "old old" /\ loop_doc = "bold") => SpecialGain = 0

\* All four rules hit at once.
C13_Witness ==
  /\ Scored
  /\ loop_query = "old breast cancer bone"
  /\ loop_doc = "year-old breast cancer bone"
  /\ SpecialGain = 40

\* C14: for the corpus ['chest pain', 'unrelated text'] and the query
\* 'chest pain', 'chest pain' scores at least 15, 'unrelated text' scores 0,
\* and for every top_k >= 1 the result starts with 'chest pain' and
\* 'unrelated text' is nowhere in front of it.
C14_ChestPainScenario ==
  \A r \in Retrievers :
    (/\ called[r]
     /\ query_arg[r] = "chest pain"
     /\ documents_arg[r] = <<Document("chest pain", 0), Document("unrelated text", 1)>>)
      => /\ ScoreIn(r, documents_arg[r][1]) >= 15
         /\ ScoreIn(r, documents_arg[r][2]) = 0
         /\ scored_docs[r][1][2] = documents_arg[r][1]
         /\ top_k[r] >= 1 =>
              /\ top_docs[r] # <<>>
              /\ top_docs[r][1] = documents_arg[r][1]
              /\ \A i, j \in DOMAIN top_docs[r] :
                   (top_docs[r][i] = documents_arg[r][2] /\ top_docs[r][j] = documents_arg[r][1])
                     => j < i

\* The scenario has run with top_k >= 2 and returned 'chest pain' alone.
C14_Witness ==
  \E r \in Retrievers :
    /\ called[r]
    /\ top_k[r] >= 2
    /\ query_arg[r] = "chest pain"
    /\ documents_arg[r] = <<Document("chest pain", 0), Document("unrelated text", 1)>>
    /\ top_docs[r] = <<Document("chest pain", 0)>>

\* ------------------------------------------------- extractor properties
\* The elements of a list.
Elements(xs) == {xs[i] : i \in DOMAIN xs}

\* The categories whose list the dict of the last call holds.
Extracted == {c \in categories : info_keys[c] \in DOMAIN extracted_info}

\* The list the last call extracted for category c.
ListOf(c) == extracted_info[info_keys[c]]

\* The matches findall reports for pattern i of category c on document d of
\* the last call.
MatchesIn(c, d, i) == pattern_matches[c, call_documents[d].content][i]

PatternsOf(c) == 1..Len(extraction_patterns[c])

\* C15: for every category the extracted list has no entry twice, its
\* entries are exactly the normalized matches of all patterns of the category
\* on all documents, and every entry comes from a match whose captured texts
\* occur in the content of a document of the call.
C15_UnionWithoutDuplicates ==
  \A c \in Extracted :
    /\ \A i, j \in DOMAIN ListOf(c) : ListOf(c)[i] = ListOf(c)[j] => i = j
    /\ Elements(ListOf(c)) =
         UNION {Elements(pattern_entries(c, call_documents[d].content, i)) :
                  d \in DOMAIN call_documents, i \in PatternsOf(c)}
    /\ \A e \in Elements(ListOf(c)) :
         \E d \in DOMAIN call_documents, i \in PatternsOf(c) :
           \E j \in DOMAIN MatchesIn(c, d, i) :
             /\ e \in Elements(entries(c, extraction_patterns[c][i], MatchesIn(c, d, i)[j]))
             /\ \A g \in DOMAIN MatchesIn(c, d, i)[j].parts :
                  contains(MatchesIn(c, d, i)[j].parts[g], chars[call_documents[d].content])

\* Medications were extracted from two documents, two patterns reported the
\* same dose, a later pattern contributed an entry of its own, and the list
\* holds each entry once.
C15_Witness ==
  /\ op = "extract_specific_info"
  /\ call_query = "medication"
  /\ Len(call_documents) = 2
  /\ MatchesIn("medications", 1, 2) # <<>>
  /\ MatchesIn("medications", 1, 2) = MatchesIn("medications", 1, 6)
  /\ MatchesIn("medications", 1, 3) # <<>>
  /\ Len(ListOf("medications")) = 2
  /\ Len(appended("medications", call_documents)) > 2

\* C16: every element of every extracted list, whatever its category, is a
\* single string and never a tuple of capture groups.
C16_EveryEntryIsAString ==
  \A c \in Extracted : \A e \in Elements(ListOf(c)) : e.type = "str"

\* The categories the query of the last call triggers, in statement order.
Fired == triggered(call_query)

\* No pattern of category c matches any document of the last call.
NoMatchIn(c) ==
  \A d \in DOMAIN call_documents, i \in PatternsOf(c) : MatchesIn(c, d, i) = <<>>

\* The answer is the fixed message of category c, without a bullet list.
FixedMessage(c) == answer = Answer(not_found_messages[c], "", <<>>)

\* C17 as stated: whenever no document of the corpus matches any pattern of
\* a category, the extracted list of that category is empty and the
\* generator, answering for that category, returns the category's fixed
\* 'No specific ... information found in the case reports.' message.
C17_NoMatchFixedMessage ==
  \A n \in DOMAIN Fired :
    NoMatchIn(Fired[n]) =>
      /\ op = "extract_specific_info" => ListOf(Fired[n]) = <<>>
      /\ (op = "run" /\ n = 1) => FixedMessage(Fired[n])

\* C17, amended: the above holds for a document list that is not empty; on
\* an empty document list the generator extracts nothing and answers
\* 'No relevant documents found for query: <query>'.
C17_NoMatchFixedMessageNonEmpty ==
  /\ \A n \in DOMAIN Fired :
       (NoMatchIn(Fired[n]) /\ Len(call_documents) > 0) =>
         /\ op # "none" => ListOf(Fired[n]) = <<>>
         /\ (op = "run" /\ n = 1) => FixedMessage(Fired[n])
  /\ (op = "run" /\ Len(call_documents) = 0) =>
       /\ extracted_info = <<>>
       /\ answer = Answer("No relevant documents found for query: {query}", call_query, <<>>)

\* The generator was asked for medications over two documents, one of which
\* matches patterns of other categories, and gave the fixed message.
C17_Witness ==
  /\ op = "run"
  /\ call_query = "medication"
  /\ Len(call_documents) = 2
  /\ \E i \in PatternsOf("age") : MatchesIn("age", 1, i) # <<>>
  /\ NoMatchIn("medications")
  /\ ListOf("medications") = <<>>
  /\ FixedMessage("medications")

\* C18: when ages are extracted from a document with a decade phrase
\* 'in his <N>s' or 'in her <N>s' (the matches of age patterns 5 and 6), the
\* age list contains '<N>s', the digits followed by 's'; for 'in his 70s'
\* it contains '70s'.
C18_DecadePhrase ==
  "age" \in Extracted =>
    \A d \in DOMAIN call_documents :
      /\ \A i \in {5, 6} : \A j \in DOMAIN MatchesIn("age", d, i) :
           str(MatchesIn("age", d, i)[j].parts[1] \o <<"s">>) \in Elements(ListOf("age"))
      /\ contains(in_his \o <<" ", "7", "0", "s">>, chars[call_documents[d].content])
           => str(<<"7", "0", "s">>) \in Elements(ListOf("age"))

\* The case report quoted in the scenario, as the only document.
CaseReport == <<Document("A 74-year-old woman with breast cancer.", 0)>>

\* C19: when ages are extracted, every '<N>-year-old <sex>' and every
\* '<N> year(s) old <sex>' in a document (the matches of age patterns 7 and
\* 8, sex one of male, female, man, woman) puts '<N>-year-old <sex>' in the
\* age list; the text 'She is 65 years old Female.' gives
\* '65-year-old Female'; and for the corpus
\* ['A 74-year-old woman with breast cancer.'] and the query 'age' the ages
\* are extracted and contain '74-year-old woman' and '74'.
C19_YearOldSex ==
  /\ "age" \in Extracted =>
       \A d \in DOMAIN call_documents :
         /\ \A i \in {7, 8} : \A j \in DOMAIN MatchesIn("age", d, i) :
              LET m == MatchesIn("age", d, i)[j]
              IN  /\ lower(m.parts[2]) \in Elements(sex_terms)
                  /\ str(m.parts[1] \o <<"-","y","e","a","r","-","o","l","d"," ">> \o m.parts[2])
                       \in Elements(ListOf("age"))
         /\ call_documents[d].content = "She is 65 years old Female." =>
              str(<<"6","5","-","y","e","a","r","-","o","l","d"," ","F","e","m","a","l","e">>)
                \in Elements(ListOf("age"))
  /\ (op # "none" /\ call_query = "age" /\ call_documents = CaseReport) =>
       /\ "age" \in Extracted
       /\ str(<<"7","4","-","y","e","a","r","-","o","l","d"," ","w","o","m","a","n">>)
            \in Elements(ListOf("age"))
       /\ str(<<"7","4">>) \in Elements(ListOf("age"))

\* The scenario has been run: the ages of the quoted case report were
\* extracted for the query 'age' and are its two tokens.
C19_Witness ==
  /\ op = "extract_specific_info"
  /\ call_query = "age"
  /\ call_documents = CaseReport
  /\ MatchesIn("age", 1, 7) # <<>>
  /\ Len(ListOf("age")) = 2

\* 'name dose unit' for a match of a pattern with a unit group, 'name form'
\* for a match of a two-group pattern.
NameDoseUnit(c, i, m) ==
  IF extraction_patterns[c][i].groups >= 3
  THEN m.parts[1] \o <<" ">> \o m.parts[2] \o <<" ">> \o m.parts[3]
  ELSE m.parts[1] \o <<" ">> \o m.parts[2]

\* C20: when medications are extracted, every match of a medication pattern
\* puts its name, dose and unit joined by single spaces in the list, or its
\* name and form for a two-group pattern (name + drip/infusion/injection);
\* the list holds nothing else, and no entry starts or ends with
\* whitespace.  'Propofol 100 MG iv, fentanyl drip' gives 'Propofol 100 MG'
\* and 'fentanyl drip'.
C20_MedicationNormalized ==
  "medications" \in Extracted =>
    /\ \A d \in DOMAIN call_documents, i \in PatternsOf("medications") :
         \A j \in DOMAIN MatchesIn("medications", d, i) :
           str(NameDoseUnit("medications", i, MatchesIn("medications", d, i)[j]))
             \in Elements(ListOf("medications"))
    /\ \A e \in Elements(ListOf("medications")) :
         /\ e.type = "str"
         /\ Len(e.parts[1]) > 0
         /\ e.parts[1][1] \notin whitespace
         /\ e.parts[1][Len(e.parts[1])] \notin whitespace
         /\ \E d \in DOMAIN call_documents, i \in PatternsOf("medications") :
              \E j \in DOMAIN MatchesIn("medications", d, i) :
                e.parts[1] = NameDoseUnit("medications", i, MatchesIn("medications", d, i)[j])
    /\ \A d \in DOMAIN call_documents :
         call_documents[d].content = "Propofol 100 MG iv, fentanyl drip" =>
           /\ str(<<"P","r","o","p","o","f","o","l"," ","1","0","0"," ","M","G">>)
                \in Elements(ListOf("medications"))
           /\ str(<<"f","e","n","t","a","n","y","l"," ","d","r","i","p">>)
                \in Elements(ListOf("medications"))

\* Medications were extracted from a text with a four-group match (name,
\* dose, unit, route) and a two-group match (name, form).
C20_Witness ==
  /\ op = "extract_specific_info"
  /\ call_query = "medication"
  /\ Len(call_documents) = 1
  /\ Len(MatchesIn("medications", 1, 1)) = 1
  /\ Len(MatchesIn("medications", 1, 1)[1].parts) = 4
  /\ Len(MatchesIn("medications", 1, 3)) = 1
  /\ Len(ListOf("medications")) = 2

\* --------------------------------------------- keyword searcher properties
\* C21: a category search with a name that is no key of the category table
\* returns a dict with the one key 'error', whose message names that
\* category and lists every valid category name, and no keyword search is
\* made (the dict has none of the keys of a search result); with a valid
\* name the result is the search result for the category's keywords and has
\* no 'error' key.
C21_UnknownCategoryError ==
  search_call.op = "search_by_category" =>
    IF search_call.category \in
         {"demographics", "diagnoses", "medications", "procedures", "complications",
          "outcomes", "vital_signs", "lab_values"}
    THEN /\ "error" \notin DOMAIN results
         /\ results.case_reports_searched = Len(search_call.documents)
         /\ results = keyword_results(search_call.documents,
                                      keyword_categories[search_call.category], FALSE, FALSE)
    ELSE /\ DOMAIN results = {"error"}
         /\ results.error.category = search_call.category
         /\ {results.error.categories[i] : i \in DOMAIN results.error.categories} =
              {"demographics", "diagnoses", "medications", "procedures", "complications",
               "outcomes", "vital_signs", "lab_values"}

\* A category search for 'Demographics', which differs from a key only in
\* letter case, over a document that holds keywords of that category, has
\* returned the error.
C21_Witness ==
  /\ search_call.op = "search_by_category"
  /\ search_call.category = "Demographics"
  /\ Len(search_call.documents) > 0
  /\ search_call.documents[1].content = "Age 74, old age."
  /\ "error" \in DOMAIN results

\* The last keyword searcher call returned a search result.
Searched == search_call.op # "none" /\ "error" \notin DOMAIN results

\* The keyword, as searched, occurs in document d of the last call.
MatchesDoc(keyword, d) ==
  match_starts(search_form(keyword, search_call.case_sensitive),
               search_form(search_call.documents[d].content, search_call.case_sensitive),
               1, search_call.exact_match) # <<>>

NoDuplicates(list) == \A i, j \in DOMAIN list : list[i] = list[j] => i = j

\* C27: after a keyword search, keywords_found and keywords_not_found have
\* no keyword in common and neither holds a keyword twice; a keyword that
\* matches in at least one document is in keywords_found only, and a keyword
\* is in keywords_not_found only if it matches in no document.
C27_FoundAndNotFoundDisjoint ==
  Searched =>
    LET found == {results.keywords_found[i] : i \in DOMAIN results.keywords_found}
        not_found == {results.keywords_not_found[i] : i \in DOMAIN results.keywords_not_found}
    IN  /\ found \cap not_found = {}
        /\ NoDuplicates(results.keywords_found)
        /\ NoDuplicates(results.keywords_not_found)
        /\ \A i \in DOMAIN search_call.keywords :
             (\E d \in DOMAIN search_call.documents : MatchesDoc(search_call.keywords[i], d))
               => /\ search_call.keywords[i] \in found
                  /\ search_call.keywords[i] \notin not_found
        /\ \A keyword \in not_found :
             \A d \in DOMAIN search_call.documents : ~MatchesDoc(keyword, d)

\* The sum of f[i] over the indices of the list f.
RECURSIVE SumTo(_, _)
SumTo(f, n) == IF n = 0 THEN 0 ELSE f[n] + SumTo(f, n - 1)

\* C28: after a keyword search, total_matches is the sum of match_count
\* over the entries of matches_by_case, and the match_count of each entry is
\* the sum of the counts of its listed keyword matches, also when several
\* documents have the same case_name.
C28_TotalIsSumOfCases ==
  Searched =>
    /\ results.total_matches =
         SumTo([i \in DOMAIN results.matches_by_case |->
                  results.matches_by_case[i].value.match_count],
               Len(results.matches_by_case))
    /\ \A i \in DOMAIN results.matches_by_case :
         LET entry == results.matches_by_case[i].value
         IN  entry.match_count =
               SumTo([j \in DOMAIN entry.matches |-> entry.matches[j].count], Len(entry.matches))


\* ---------------------------------------------------------- query pipelines
\* The answers the two generators give when they are handed no document.
NoDocumentsAnswers(question) ==
  {Answer("I'm sorry, I couldn't find any relevant information about '{query}' in the medical case reports. Please try asking about patient conditions, treatments, complications, or specific medical details.",
          question, <<>>),
   Answer("No relevant documents found for query: {query}", question, <<>>)}

\* The retriever of the running query function.
PipelineRetriever ==
  IF pipeline.op = "query_multiple_cases" THEN "r1" ELSE "r2"

\* C25: in query_multiple_cases and query_with_intelligent_extraction a
\* non-empty loaded corpus makes the retriever (top_k = 5) hand the generator
\* at least one document, so the answer is never a generator's 'no
\* documents' answer; an empty loaded corpus is answered with 'Error: Could
\* not load any medical case reports.' and neither the retriever nor the
\* generator has run.
C25_PipelineHandsDocuments ==
  pipeline.op # "none" =>
    IF Len(documents) > 0
    THEN /\ called[PipelineRetriever]
         /\ Len(pipeline.documents) >= 1
         /\ pipeline.documents = top_docs[PipelineRetriever]
         /\ pipeline.answer \notin NoDocumentsAnswers(pipeline.question)
         /\ pipeline.answer # LoadError
    ELSE /\ pipeline.answer = LoadError
         /\ \A r \in Retrievers : ~called[r]
         /\ op = "none"

\* Both cases happen: a query whose every document scores 0 still hands the
\* generator a document, and a query on an empty corpus has been answered.
C25_Witness ==
  /\ pipeline.op = "query_with_intelligent_extraction"
  /\ Len(documents) = MaxDocs
  /\ \A i \in DOMAIN scored_docs["r2"] : scored_docs["r2"][i][1] = 0
  /\ Len(pipeline.documents) = MaxDocs


\* ------------------------------------------- purity of rank and extraction
\* The list run(query, docs) returns on a retriever with top_k = k.
Ranked(query, docs, k) ==
  select_top(sort_desc(score_all(query, docs)), k, docs)

\* What the retrievers and the extractor hold of their last calls.
CallRecords ==
  <<called, query_arg, documents_arg, scored_docs, top_docs, op, call_query,
    call_documents, extracted_info>>

\* C22: rank and extraction are pure. A step in which a retriever or the
\* extractor is called leaves the corpus as it was (order, contents and
\* metadata), the list the call was given is still that corpus afterwards,
\* and whatever calls came before, the list run returns is the one its
\* arguments and top_k determine and the dict extract_specific_info returns
\* is one its arguments determine.
C22_RankAndExtractionPure ==
  [][/\ CallRecords' # CallRecords => documents' = documents
     /\ \A r \in Retrievers :
          (called'[r] /\ <<called[r], query_arg[r], scored_docs[r], top_docs[r]>>'
                          # <<called[r], query_arg[r], scored_docs[r], top_docs[r]>>)
            => /\ documents_arg'[r] = documents
               /\ top_docs'[r] = Ranked(query_arg'[r], documents, top_k[r])
     /\ (op = "none" /\ op' = "extract_specific_info")
            => /\ call_documents' = documents
               /\ extracted_info' \in extracted_infos(documents, call_query')]_vars

\* After a run that returned fewer documents than the corpus holds and an
\* extraction that found something, the corpus is the list both were given.
C22_Witness ==
  /\ Len(documents) = MaxDocs
  /\ called["r1"]
  /\ documents_arg["r1"] = documents
  /\ top_docs["r1"] # documents
  /\ top_docs["r1"] # <<>>
  /\ op = "extract_specific_info"
  /\ call_documents = documents
  /\ \E key \in DOMAIN extracted_info : extracted_info[key] # <<>>


\* ------------------------------------- what a phrase match implies, and not
\* The categories with a term in the lowercased query.
QueryCategories ==
  {c \in DOMAIN medical_terms : any_term_in(medical_terms[c], LoopQueryLower)}

\* The query words longer than 2 characters, by position in the query.
LongQueryWords ==
  {span \in QueryWordSpans : span[2] - span[1] + 1 > 2}

\* C23: when the lowercased query is a substring of the lowercased document,
\* the document gets the +15 phrase bonus, +2 for every query word longer
\* than 2 characters and +8 for every category with a term in the query, so
\* its score is at least 15 + 2 * (long query words) + 8 * (categories of
\* the query); the special-handling block may still add nothing.
C23_PhraseMatchImpliesBonuses ==
  (Scored /\ contains(LoopQueryLower, LoopDocLower)) =>
    /\ score_steps[1] = 15
    /\ CategoryGain = 8 * Cardinality(QueryCategories)
    /\ WordGain = 2 * Cardinality(LongQueryWords)
    /\ score_steps[4] >= 15 + 2 * Cardinality(LongQueryWords) + 8 * Cardinality(QueryCategories)

\* 'is old' inside 'he is older': the phrase bonus and the bonus for 'old',
\* and no age boost although 'old' is on the query side of the age rule.
C23_Witness ==
  /\ Scored
  /\ loop_query = "is old"
  /\ loop_doc = "he is older"
  /\ contains(LoopQueryLower, LoopDocLower)
  /\ any_term_in(special_rules[1][1], LoopQueryLower)
  /\ SpecialGain = 0
  /\ score_steps[4] = 17

\* The terms of category c that have an uppercase letter.
UppercaseTerms(c) ==
  {j \in DOMAIN medical_terms[c] :
     \E i \in DOMAIN medical_terms[c][j] : medical_terms[c][j][i] \in DOMAIN upper_to_lower}

\* Category c has a term in the lowercased query and one in the lowercased
\* document.
CategoryHit(c) ==
  /\ any_term_in(medical_terms[c], LoopQueryLower)
  /\ any_term_in(medical_terms[c], LoopDocLower)

\* C24: a table term with an uppercase letter ('ARDS', 'PBSS', 'PaO2',
\* 'OSA', 'CHF') is found neither in the lowercased query nor in the
\* lowercased document; when query and document both hold such a term in
\* some letter case and neither holds an all-lowercase term of its
\* category, the category block adds no 8 for that category.
C24_UppercaseTermsNeverMatch ==
  Scored =>
    \A c \in DOMAIN medical_terms : \A j \in UppercaseTerms(c) :
      /\ ~contains(medical_terms[c][j], LoopQueryLower)
      /\ ~contains(medical_terms[c][j], LoopDocLower)
      /\ (/\ contains(lower(medical_terms[c][j]), LoopQueryLower)
          /\ contains(lower(medical_terms[c][j]), LoopDocLower)
          /\ \A k \in DOMAIN medical_terms[c] \ UppercaseTerms(c) :
               /\ ~contains(medical_terms[c][k], LoopQueryLower)
               /\ ~contains(medical_terms[c][k], LoopDocLower))
         => /\ ~CategoryHit(c)
            /\ CategoryGain = 8 * Cardinality({d \in DOMAIN medical_terms \ {c} : CategoryHit(d)})

\* Query and document both are 'ARDS': the phrase bonus, no category bonus.
C24_Witness ==
  /\ Scored
  /\ loop_query = "ARDS"
  /\ loop_doc = "ARDS"
  /\ score_steps[1] = 15
  /\ CategoryGain = 0


\* ------------------------------------------------ the generator's branches
\* The categories in the order the claim gives them.
BranchOrder ==
  <<"age", "sex", "diagnosis", "medications", "procedures", "complications", "outcomes">>

\* The trigger terms of extract_specific_info for category c occur in the
\* lowercased query of the last call.
Triggers(c) ==
  \E n \in DOMAIN trigger_terms :
    /\ trigger_terms[n].category = c
    /\ any_term_in(trigger_terms[n].terms, lower(chars[call_query]))

\* The answer the claim describes for the last call of run.
FirstTriggeredAnswer ==
  IF \E n \in DOMAIN BranchOrder : Triggers(BranchOrder[n])
  THEN LET first == CHOOSE n \in DOMAIN BranchOrder :
                      /\ Triggers(BranchOrder[n])
                      /\ \A m \in 1..(n - 1) : ~Triggers(BranchOrder[m])
       IN  /\ info_keys[BranchOrder[first]] \in DOMAIN extracted_info
           /\ answer = format_answer(BranchOrder[first], extracted_info)
  ELSE answer = format_general_answer(extracted_info, call_query)

\* C26 as stated: every call of SpecificAnswerGenerator.run answers for the
\* first category, in the order age, sex, diagnosis, medication, procedure,
\* complication, outcome, whose trigger terms occur in the lowercased query,
\* with the general answer if there is none, and extracted_info has the key
\* of the category answered for.
C26_FirstTriggeredCategory ==
  op = "run" => FirstTriggeredAnswer

\* C26, amended: the above holds for a call with a non-empty document list;
\* a call with an empty list takes no branch, extracts nothing and answers
\* 'No relevant documents found for query: <query>'.
C26_FirstTriggeredCategoryNonEmpty ==
  op = "run" =>
    IF Len(call_documents) > 0
    THEN FirstTriggeredAnswer
    ELSE /\ extracted_info = <<>>
         /\ answer = Answer("No relevant documents found for query: {query}", call_query, <<>>)

\* 'Gender and Age' triggers sex and age: the age branch answered with the
\* ages it found, and extracted_info holds both keys.
C26_Witness ==
  /\ op = "run"
  /\ call_query = "Gender and Age"
  /\ Len(call_documents) > 0
  /\ answer.header = found_headers["age"]
  /\ Len(answer.lines) > 0
  /\ {"ages", "sex"} \subseteq DOMAIN extracted_info


\* --------------------------------------------------------- patient searcher
\* The patients indexed for the last search.
Indexed == {mimic_call.patients[i] : i \in DOMAIN mimic_call.patients}

\* The ids listed in the patient_ids argument of the last search.
Listed == {mimic_call.patient_ids[1][i] : i \in DOMAIN mimic_call.patient_ids[1]}

\* The patients the last search was asked to look at: the listed ones that
\* are indexed when patient_ids is given, all indexed ones otherwise.
SearchedPatients ==
  IF mimic_call.patient_ids # None THEN Listed \cap Indexed ELSE Indexed

\* The relevance score of patient id for the last search.
ScoreOf(id) ==
  calculate_relevance_score(lower(chars[mimic_call.query]), split(lower(chars[mimic_call.query])),
                            patient_files[id], mimic_call.categories)

\* C29: search_patients returns at most max_results results in non-increasing
\* relevance_score order; every result has relevance_score > 0 and refers to
\* an indexed patient that, when patient_ids is given, is listed in it; and
\* the result is empty when no searched patient scores above 0.
C29_SearchResults ==
  mimic_call.op = "search_patients" =>
    /\ Len(mimic_results) <= mimic_call.max_results
    /\ \A i, j \in DOMAIN mimic_results :
         i < j => mimic_results[i].relevance_score >= mimic_results[j].relevance_score
    /\ \A i \in DOMAIN mimic_results :
         /\ mimic_results[i].relevance_score > 0
         /\ mimic_results[i].relevance_score = ScoreOf(mimic_results[i].patient_id)
         /\ mimic_results[i].patient_id \in Indexed
         /\ mimic_call.patient_ids # None => mimic_results[i].patient_id \in Listed
    /\ (\A id \in SearchedPatients : ScoreOf(id) = 0) => mimic_results = <<>>


\* ---------------------------------------------------------------- C30
\* Thread t answers its request in this step.
Answers(t) == requests[t].pc # "responded" /\ requests'[t].pc = "responded"

\* The /api/ routes that use the interface.
ApiRoutes == {"/api/search", "/api/patient", "/api/patients", "/api/stats"}

\* Before the first GET / is answered, an /api/ request that reaches the
\* interface is answered with 500 and carries no search result; an
\* /api/search request with a missing or empty query is answered with 400
\* in every state.
ApiAnswers ==
  \A t \in Threads :
    Answers(t) =>
      /\ requests'[t].body = "Query is required" <=>
           (requests'[t].route = "/api/search" /\ requests'[t].status = 400)
      /\ (/\ ~index_answered
          /\ requests'[t].route \in ApiRoutes
          /\ requests'[t].body # "Query is required")
           => requests'[t].status = 500 /\ requests'[t].body = "error"

\* Only the index route assigns the global interface.
OnlyIndexCreates ==
  interface' # interface =>
    \E t \in Threads : requests[t].route = "/" /\ Answers(t)

\* Once a GET / has been answered the interface is initialised, stays so
\* and is never replaced.
StaysInitialised ==
  /\ index_answered' => interface' # 0
  /\ interface # 0 => interface' = interface

\* C30: the global query interface is created only by the index route; an
\* /api/search request with a non-empty query, or an /api/patient,
\* /api/patients or /api/stats request, handled before the first GET / is
\* answered with HTTP 500 and no search result, while /api/search with a
\* missing or empty query is answered with HTTP 400 in every state; after
\* the first GET / the interface stays initialised and is never replaced.
C30_InterfaceLifecycle == [][ApiAnswers /\ OnlyIndexCreates /\ StaysInitialised]_vars

====
